---- MODULE Spec2Model ----
(***************************************************************************)
(* Model of gtk/Application.cc: the GTK shell of the BitTorrent client.    *)
(* The state is the fields of Application::Impl, the GLib idle queue, the  *)
(* session-close thread and the process status.  Every handler is an       *)
(* operator from a state record to a state record, so that a handler that  *)
(* calls another handler is the composition of the two operators; an       *)
(* action commits the record a handler returns.                            *)
(***************************************************************************)
EXTENDS Integers, Sequences, FiniteSets, TLC

(***************************************************************************)
(* Bounds of the model.                                                    *)
(***************************************************************************)
MaxIdle == 2
MaxRecorded == 2
MaxDialogs == 2
MaxActivations == 2
MaxSignals == 2
MaxEdits == 1
MaxPrefInt == 1
MaxDetails == 2
MaxText == 2

(***************************************************************************)
(* Enumerations.                                                           *)
(***************************************************************************)
RpcTypes ==
  { "TR_RPC_TORRENT_ADDED", "TR_RPC_TORRENT_STARTED", "TR_RPC_TORRENT_STOPPED",
    "TR_RPC_TORRENT_REMOVING", "TR_RPC_TORRENT_TRASHING", "TR_RPC_TORRENT_CHANGED",
    "TR_RPC_TORRENT_MOVED", "TR_RPC_SESSION_CHANGED",
    "TR_RPC_SESSION_QUEUE_POSITIONS_CHANGED", "TR_RPC_SESSION_CLOSE" }

\* a value of tr_rpc_callback_type that is none of the enumerators
RpcTypeInputs == RpcTypes \cup { "TR_RPC_OUT_OF_RANGE" }

ErrorCodes == { "ERR_ADD_TORRENT_ERR", "ERR_ADD_TORRENT_DUP", "ERR_NO_MORE_TORRENTS" }

\* a value of Session::ErrorCode that is none of the enumerators
ErrorCodeInputs == ErrorCodes \cup { "ERR_OUT_OF_RANGE" }

Threads == { "ui", "bg" }

TorrentIds == { 1, 2 }

\* messages of the add-error signal: a path, as its sequence of components
Msgs == { <<"a.torrent">>, <<"dir", "a.torrent">>, <<"dir", "b.torrent">> }

(***************************************************************************)
(* Preference keys.  PrefsSwitch is the switch of on_prefs_changed, one    *)
(* tuple per case label: <<key, function called, its extra argument, the   *)
(* getter that reads the stored value, whether the value is negated>>.     *)
(***************************************************************************)
PrefsSwitch ==
  { <<"encryption", "tr_sessionSetEncryption", "-", "int", FALSE>>,
    <<"default_trackers", "tr_sessionSetDefaultTrackers", "-", "string", FALSE>>,
    <<"download_dir", "tr_sessionSetDownloadDir", "-", "string", FALSE>>,
    <<"message_level", "tr_logSetLevel", "-", "int", FALSE>>,
    <<"peer_port", "tr_sessionSetPeerPort", "-", "int", FALSE>>,
    <<"blocklist_enabled", "tr_blocklistSetEnabled", "-", "flag", FALSE>>,
    <<"blocklist_url", "tr_blocklistSetURL", "-", "string", FALSE>>,
    <<"speed_limit_down_enabled", "tr_sessionLimitSpeed", "TR_DOWN", "flag", FALSE>>,
    <<"speed_limit_down", "tr_sessionSetSpeedLimit_KBps", "TR_DOWN", "int", FALSE>>,
    <<"speed_limit_up_enabled", "tr_sessionLimitSpeed", "TR_UP", "flag", FALSE>>,
    <<"speed_limit_up", "tr_sessionSetSpeedLimit_KBps", "TR_UP", "int", FALSE>>,
    <<"ratio_limit_enabled", "tr_sessionSetRatioLimited", "-", "flag", FALSE>>,
    <<"ratio_limit", "tr_sessionSetRatioLimit", "-", "double", FALSE>>,
    <<"idle_seeding_limit", "tr_sessionSetIdleLimit", "-", "int", FALSE>>,
    <<"idle_seeding_limit_enabled", "tr_sessionSetIdleLimited", "-", "flag", FALSE>>,
    <<"port_forwarding_enabled", "tr_sessionSetPortForwardingEnabled", "-", "flag", FALSE>>,
    <<"pex_enabled", "tr_sessionSetPexEnabled", "-", "flag", FALSE>>,
    <<"rename_partial_files", "tr_sessionSetIncompleteFileNamingEnabled", "-", "flag", FALSE>>,
    <<"download_queue_size", "tr_sessionSetQueueSize", "TR_DOWN", "int", FALSE>>,
    <<"queue_stalled_minutes", "tr_sessionSetQueueStalledMinutes", "-", "int", FALSE>>,
    <<"dht_enabled", "tr_sessionSetDHTEnabled", "-", "flag", FALSE>>,
    <<"utp_enabled", "tr_sessionSetUTPEnabled", "-", "flag", FALSE>>,
    <<"lpd_enabled", "tr_sessionSetLPDEnabled", "-", "flag", FALSE>>,
    <<"rpc_port", "tr_sessionSetRPCPort", "-", "int", FALSE>>,
    <<"rpc_enabled", "tr_sessionSetRPCEnabled", "-", "flag", FALSE>>,
    <<"rpc_whitelist", "tr_sessionSetRPCWhitelist", "-", "string", FALSE>>,
    <<"rpc_whitelist_enabled", "tr_sessionSetRPCWhitelistEnabled", "-", "flag", FALSE>>,
    <<"rpc_username", "tr_sessionSetRPCUsername", "-", "string", FALSE>>,
    <<"rpc_password", "tr_sessionSetRPCPassword", "-", "string", FALSE>>,
    <<"rpc_authentication_required", "tr_sessionSetRPCPasswordEnabled", "-", "flag", FALSE>>,
    <<"alt_speed_up", "tr_sessionSetAltSpeed_KBps", "TR_UP", "int", FALSE>>,
    <<"alt_speed_down", "tr_sessionSetAltSpeed_KBps", "TR_DOWN", "int", FALSE>>,
    <<"alt_speed_enabled", "tr_sessionUseAltSpeed", "-", "flag", FALSE>>,
    <<"alt_speed_time_begin", "tr_sessionSetAltSpeedBegin", "-", "int", FALSE>>,
    <<"alt_speed_time_end", "tr_sessionSetAltSpeedEnd", "-", "int", FALSE>>,
    <<"alt_speed_time_enabled", "tr_sessionUseAltSpeedTime", "-", "flag", FALSE>>,
    <<"alt_speed_time_day", "tr_sessionSetAltSpeedDay", "-", "int", FALSE>>,
    <<"peer_port_random_on_start", "tr_sessionSetPeerPortRandomOnStart", "-", "flag", FALSE>>,
    <<"incomplete_dir", "tr_sessionSetIncompleteDir", "-", "string", FALSE>>,
    <<"incomplete_dir_enabled", "tr_sessionSetIncompleteDirEnabled", "-", "flag", FALSE>>,
    <<"script_torrent_done_enabled", "tr_sessionSetScriptEnabled", "TR_SCRIPT_ON_TORRENT_DONE", "flag", FALSE>>,
    <<"script_torrent_done_filename", "tr_sessionSetScript", "TR_SCRIPT_ON_TORRENT_DONE", "string", FALSE>>,
    <<"script_torrent_done_seeding_enabled", "tr_sessionSetScriptEnabled", "TR_SCRIPT_ON_TORRENT_DONE_SEEDING", "flag", FALSE>>,
    <<"script_torrent_done_seeding_filename", "tr_sessionSetScript", "TR_SCRIPT_ON_TORRENT_DONE_SEEDING", "string", FALSE>>,
    <<"start_added_torrents", "tr_sessionSetPaused", "-", "flag", TRUE>>,
    <<"trash_original_torrent_files", "tr_sessionSetDeleteSource", "-", "flag", FALSE>> }

\* the case labels that call into the engine
SwitchKeys == { c[1] : c \in PrefsSwitch }

\* preferences of the shell itself that this file reads or writes
ShellFlagKeys ==
  { "show_notification_area_icon", "user_has_given_informed_consent",
    "show_options_window", "blocklist_updates_enabled", "main_window_is_maximized" }

ShellIntKeys ==
  { "blocklist_date", "main_window_x", "main_window_y", "main_window_width",
    "main_window_height" }

\* queueing preferences of the session that have no case label: the seed-queue
\* counterpart of download_queue_size (tr_sessionSetQueueSize takes a direction)
\* and the switch of the download queue
SessionQueueFlagKeys == { "download_queue_enabled" }

SessionQueueIntKeys == { "seed_queue_size" }

Keys ==
  SwitchKeys \cup ShellFlagKeys \cup ShellIntKeys \cup SessionQueueFlagKeys
    \cup SessionQueueIntKeys

SwitchCase(key) == CHOOSE c \in PrefsSwitch : c[1] = key

KeyType(key) ==
  IF key \in SwitchKeys THEN SwitchCase(key)[4]
  ELSE IF key \in ShellFlagKeys \cup SessionQueueFlagKeys THEN "flag"
  ELSE "int"

\* the values a stored preference of each type ranges over
PrefValues(type) ==
  IF type = "flag" THEN BOOLEAN
  ELSE IF type = "string" THEN { "", "x" }
  ELSE 0 .. MaxPrefInt

DefaultPref(key) ==
  IF KeyType(key) = "flag" THEN FALSE
  ELSE IF KeyType(key) = "string" THEN ""
  ELSE 0

(***************************************************************************)
(* State.                                                                  *)
(***************************************************************************)
VARIABLES
  started,                \* on_startup has run
  start_paused_, is_iconified_, is_closing_, activation_count_,
  timer_,                 \* the update timer is connected
  update_model_soon_tag_, \* an update_model_once idle callback is connected
  refresh_actions_tag_,   \* a refresh_actions idle callback is connected
  icon_, wind_, core_, msgwin_, prefs_,   \* the pointer is not null
  error_list_, duplicates_list_,
  details_,               \* the open details dialogs: key |-> the torrents shown
  global_sigcount,
  hold,                   \* use count of the application (hold / release)
  visible,                \* the main window is shown
  toggled,                \* set of toggle actions whose state is "on"
  sensitive,              \* set of actions that are sensitive
  closing_panel,          \* the window shows "Closing Connections" and "Quit Now"
  consent_dialog,         \* the informed-consent dialog is open
  magnet_handler,         \* default handler of the magnet scheme
  idle,                   \* GLib idle sources, in dispatch order
  closeThread,            \* thread that runs the session-close lambda
  closePc,                \* its position
  teardownThread,         \* thread that ran on_session_closed
  proc,                   \* status of the process
  session_open,           \* Session still holds the tr_session (until close())
  torrents,               \* ids of the torrents of the engine
  model,                  \* ids of the rows of the torrent list model
  selected,               \* ids of the selected rows
  sort_reversed,          \* the rows of the list are in descending order of id
  prefs,                  \* the stored preferences
  settings,               \* the settings of the engine's session
  edits,                  \* number of preference and setting edits so far
  dialogs,                \* the torrent-error dialogs opened so far
  recorded,               \* the names appended to the pending lists so far
  calls,                  \* calls into the engine and toolkit made by the last event
  emitted,                \* keys signal_prefs_changed was emitted for by the last event
  reported,               \* the session's settings when TR_RPC_SESSION_CHANGED was last handled
  last                    \* the last event handled: <<handler, argument>>

vars ==
  << started, start_paused_, is_iconified_, is_closing_, activation_count_,
     timer_, update_model_soon_tag_, refresh_actions_tag_, icon_, wind_, core_,
     msgwin_, prefs_, error_list_, duplicates_list_, details_, global_sigcount,
     hold, visible, toggled, sensitive, closing_panel, consent_dialog,
     magnet_handler, idle, closeThread, closePc, teardownThread, proc,
     session_open, torrents, model, selected, sort_reversed, prefs, settings,
     edits, dialogs,
     recorded, calls, emitted, reported, last >>

\* the current state as one record; the handlers below map such records
State ==
  [ started |-> started, start_paused_ |-> start_paused_,
    is_iconified_ |-> is_iconified_, is_closing_ |-> is_closing_,
    activation_count_ |-> activation_count_, timer_ |-> timer_,
    update_model_soon_tag_ |-> update_model_soon_tag_,
    refresh_actions_tag_ |-> refresh_actions_tag_, icon_ |-> icon_,
    wind_ |-> wind_, core_ |-> core_, msgwin_ |-> msgwin_, prefs_ |-> prefs_,
    error_list_ |-> error_list_, duplicates_list_ |-> duplicates_list_,
    details_ |-> details_, global_sigcount |-> global_sigcount, hold |-> hold,
    visible |-> visible, toggled |-> toggled, sensitive |-> sensitive,
    closing_panel |-> closing_panel, consent_dialog |-> consent_dialog,
    magnet_handler |-> magnet_handler, idle |-> idle,
    closeThread |-> closeThread, closePc |-> closePc,
    teardownThread |-> teardownThread, proc |-> proc,
    session_open |-> session_open, torrents |-> torrents, model |-> model,
    selected |-> selected, sort_reversed |-> sort_reversed, prefs |-> prefs,
    settings |-> settings,
    edits |-> edits,
    dialogs |-> dialogs, recorded |-> recorded, calls |-> calls,
    emitted |-> emitted, reported |-> reported, last |-> last ]

Assign(t) ==
  /\ started' = t.started
  /\ start_paused_' = t.start_paused_
  /\ is_iconified_' = t.is_iconified_
  /\ is_closing_' = t.is_closing_
  /\ activation_count_' = t.activation_count_
  /\ timer_' = t.timer_
  /\ update_model_soon_tag_' = t.update_model_soon_tag_
  /\ refresh_actions_tag_' = t.refresh_actions_tag_
  /\ icon_' = t.icon_
  /\ wind_' = t.wind_
  /\ core_' = t.core_
  /\ msgwin_' = t.msgwin_
  /\ prefs_' = t.prefs_
  /\ error_list_' = t.error_list_
  /\ duplicates_list_' = t.duplicates_list_
  /\ details_' = t.details_
  /\ global_sigcount' = t.global_sigcount
  /\ hold' = t.hold
  /\ visible' = t.visible
  /\ toggled' = t.toggled
  /\ sensitive' = t.sensitive
  /\ closing_panel' = t.closing_panel
  /\ consent_dialog' = t.consent_dialog
  /\ magnet_handler' = t.magnet_handler
  /\ idle' = t.idle
  /\ closeThread' = t.closeThread
  /\ closePc' = t.closePc
  /\ teardownThread' = t.teardownThread
  /\ proc' = t.proc
  /\ session_open' = t.session_open
  /\ torrents' = t.torrents
  /\ model' = t.model
  /\ selected' = t.selected
  /\ sort_reversed' = t.sort_reversed
  /\ prefs' = t.prefs
  /\ settings' = t.settings
  /\ edits' = t.edits
  /\ dialogs' = t.dialogs
  /\ recorded' = t.recorded
  /\ calls' = t.calls
  /\ emitted' = t.emitted
  /\ reported' = t.reported
  /\ last' = t.last

\* the state x an event leaves becomes the next state
Commit(x) == \E t \in { x } : Assign(t)

(***************************************************************************)
(* Helpers.                                                                *)
(***************************************************************************)
\* an idle source: the callback and its bound arguments
IdleCb(fn, type, id) == [ fn |-> fn, type |-> type, id |-> id ]

RECURSIVE Without(_, _)
\* the idle queue q with the sources of callback fn removed (disconnect)
Without(q, fn) ==
  IF q = << >> THEN << >>
  ELSE IF Head(q).fn = fn THEN Without(Tail(q), fn)
  ELSE << Head(q) >> \o Without(Tail(q), fn)

\* one call into the engine or the toolkit, appended to the log of the event
Call(s, fn, extra, val) == [ s EXCEPT !.calls = Append(@, << fn, extra, val >>) ]

\* the process leaves the running state: exit(0), abort(), a fatal signal, or
\* the crash of an access through a null pointer
Stop(s, how) == [ s EXCEPT !.proc = how ]

\* an access through core_, wind_ or sel_: with a null pointer the behaviour is
\* undefined, and the build either crashes there or carries on
Deref(s, alive, ub) ==
  IF alive \/ ub = "continue" THEN s ELSE Stop(s, "crashed")

Running(s) == s.proc = "running"

UbOutcomes == { "crash", "continue" }

\* sequencing of statements: x is the state the statements so far leave, and f
\* is the rest of the function body, which continues from that state
Then(x, f(_)) == CHOOSE r \in { f(v) : v \in { x } } : TRUE

(***************************************************************************)
(* Torrents.  The attributes of a torrent are those of its row in the      *)
(* list model: the activity column and tr_torrentCanManualUpdate.          *)
(***************************************************************************)
TorrentActivity(id) ==
  IF id = 1 THEN "TR_STATUS_STOPPED"
  ELSE IF id = 2 THEN "TR_STATUS_DOWNLOAD_WAIT"
  ELSE "TR_STATUS_DOWNLOAD"

CanManualUpdate(id) == id = 2

\* variant of get_selected_torrent_counts: the waiting torrents are not counted
\* as queued
get_selected_torrent_counts_no_queue(s) ==
  [ total_count |-> Cardinality(s.selected),
    queued_count |-> 0,
    stopped_count |->
      Cardinality({ id \in s.selected : TorrentActivity(id) = "TR_STATUS_STOPPED" }) ]

\* get_selected_torrent_counts
get_selected_torrent_counts(s) ==
  [ total_count |-> Cardinality(s.selected),
    queued_count |->
      Cardinality({ id \in s.selected :
        TorrentActivity(id) \in { "TR_STATUS_DOWNLOAD_WAIT", "TR_STATUS_SEED_WAIT" } }),
    stopped_count |->
      Cardinality({ id \in s.selected : TorrentActivity(id) = "TR_STATUS_STOPPED" }) ]

\* the actions whose sensitivity refresh_actions sets
RefreshedActions ==
  { "select-all", "deselect-all", "pause-all-torrents", "start-all-torrents",
    "torrent-stop", "torrent-start", "torrent-start-now", "torrent-verify",
    "remove-torrent", "delete-torrent", "relocate-torrent", "queue-move-top",
    "queue-move-up", "queue-move-down", "queue-move-bottom",
    "show-torrent-properties", "open-torrent-folder",
    "copy-magnet-link-to-clipboard", "torrent-reannounce" }

\* the sensitivities refresh_actions computes, as the set of sensitive actions
Sensitivities(s) ==
  LET total == Cardinality(s.model)
      active == Cardinality({ id \in s.model : TorrentActivity(id) # "TR_STATUS_STOPPED" })
      torrent_count == Cardinality(s.model)
      c == get_selected_torrent_counts(s)
      has_selection == c.total_count > 0
      canUpdate == \E id \in s.selected : CanManualUpdate(id)
  IN  { a \in RefreshedActions :
          \/ a \in { "select-all", "deselect-all" } /\ torrent_count # 0
          \/ a = "pause-all-torrents" /\ active # 0
          \/ a = "start-all-torrents" /\ active # total
          \/ a = "torrent-stop" /\ c.stopped_count < c.total_count
          \/ a = "torrent-start" /\ c.stopped_count > 0
          \/ a = "torrent-start-now" /\ c.stopped_count + c.queued_count > 0
          \/ a \in { "torrent-verify", "remove-torrent", "delete-torrent",
                     "relocate-torrent", "queue-move-top", "queue-move-up",
                     "queue-move-down", "queue-move-bottom",
                     "show-torrent-properties" } /\ has_selection
          \/ a \in { "open-torrent-folder", "copy-magnet-link-to-clipboard" }
               /\ c.total_count = 1
          \/ a = "torrent-reannounce" /\ canUpdate }

\* variant of refresh_actions: the sensitivities are set without the test of
\* is_closing_
refresh_actions_always(s, ub) ==
  Then(Deref(s, s.core_, ub), LAMBDA d :
    IF ~Running(d) THEN d
    ELSE [ d EXCEPT !.sensitive =
                      IF ~s.core_ THEN @
                      ELSE (@ \ RefreshedActions) \cup Sensitivities(d),
                    !.refresh_actions_tag_ = FALSE,
                    !.idle = Without(@, "refresh_actions") ])

\* refresh_actions
refresh_actions(s, ub) ==
  Then(IF s.is_closing_ THEN s ELSE Deref(s, s.core_, ub), LAMBDA d :
    IF ~Running(d) THEN d
    ELSE [ d EXCEPT !.sensitive =
                      IF s.is_closing_ \/ ~s.core_ THEN @
                      ELSE (@ \ RefreshedActions) \cup Sensitivities(d),
                    !.refresh_actions_tag_ = FALSE,
                    !.idle = Without(@, "refresh_actions") ])

\* refresh_actions_soon
refresh_actions_soon(s) ==
  IF ~s.is_closing_ /\ ~s.refresh_actions_tag_
  THEN [ s EXCEPT !.refresh_actions_tag_ = TRUE,
                  !.idle = Append(@, IdleCb("refresh_actions", "-", 0)) ]
  ELSE s

\* update_model_once
update_model_once(s, ub) ==
  Then(Deref(s, s.core_, ub), LAMBDA d :
  Then(IF Running(d) /\ s.core_ THEN Call(d, "Session::update", "-", 0) ELSE d, LAMBDA u :
  Then(IF Running(u) /\ u.wind_ THEN Call(u, "MainWindow::refresh", "-", 0) ELSE u, LAMBDA w :
  Then(IF Running(w) THEN refresh_actions(w, ub) ELSE w, LAMBDA r :
  Then(IF Running(r) /\ r.icon_ THEN Call(r, "SystemTrayIcon::refresh", "-", 0) ELSE r, LAMBDA i :
    IF ~Running(i) THEN i
    ELSE [ i EXCEPT !.update_model_soon_tag_ = FALSE,
                    !.idle = Without(@, "update_model_once") ])))))

\* variant of update_model_soon: the source is connected without the test of
\* update_model_soon_tag_.connected()
update_model_soon_unchecked(s) ==
  [ s EXCEPT !.update_model_soon_tag_ = TRUE,
             !.idle = Append(@, IdleCb("update_model_once", "-", 0)) ]

\* update_model_soon
update_model_soon(s) ==
  IF ~s.update_model_soon_tag_
  THEN [ s EXCEPT !.update_model_soon_tag_ = TRUE,
                  !.idle = Append(@, IdleCb("update_model_once", "-", 0)) ]
  ELSE s

\* variant of update_model_loop: global_sigcount is not looked at
update_model_loop_ignoring_signal(s, ub) == update_model_once(s, ub)

\* update_model_loop: the state it leaves; the timer stays connected while it
\* returns true
update_model_loop(s, ub) ==
  LET done == s.global_sigcount # 0
  IN  IF ~done THEN update_model_once(s, ub)
      ELSE [ s EXCEPT !.timer_ = FALSE ]

(***************************************************************************)
(* The engine's side of the preference relay: the setting each setter      *)
(* writes, <<function, extra argument, key of the setting, negated>>.      *)
(* tr_sessionGetSettings reports the settings under the keys of the stored *)
(* preferences.                                                            *)
(***************************************************************************)
EngineSetters ==
  { <<"tr_sessionSetEncryption", "-", "encryption", FALSE>>,
    <<"tr_sessionSetDefaultTrackers", "-", "default_trackers", FALSE>>,
    <<"tr_sessionSetDownloadDir", "-", "download_dir", FALSE>>,
    <<"tr_logSetLevel", "-", "message_level", FALSE>>,
    <<"tr_sessionSetPeerPort", "-", "peer_port", FALSE>>,
    <<"tr_blocklistSetEnabled", "-", "blocklist_enabled", FALSE>>,
    <<"tr_blocklistSetURL", "-", "blocklist_url", FALSE>>,
    <<"tr_sessionLimitSpeed", "TR_DOWN", "speed_limit_down_enabled", FALSE>>,
    <<"tr_sessionLimitSpeed", "TR_UP", "speed_limit_up_enabled", FALSE>>,
    <<"tr_sessionSetSpeedLimit_KBps", "TR_DOWN", "speed_limit_down", FALSE>>,
    <<"tr_sessionSetSpeedLimit_KBps", "TR_UP", "speed_limit_up", FALSE>>,
    <<"tr_sessionSetRatioLimited", "-", "ratio_limit_enabled", FALSE>>,
    <<"tr_sessionSetRatioLimit", "-", "ratio_limit", FALSE>>,
    <<"tr_sessionSetIdleLimit", "-", "idle_seeding_limit", FALSE>>,
    <<"tr_sessionSetIdleLimited", "-", "idle_seeding_limit_enabled", FALSE>>,
    <<"tr_sessionSetPortForwardingEnabled", "-", "port_forwarding_enabled", FALSE>>,
    <<"tr_sessionSetPexEnabled", "-", "pex_enabled", FALSE>>,
    <<"tr_sessionSetIncompleteFileNamingEnabled", "-", "rename_partial_files", FALSE>>,
    <<"tr_sessionSetQueueSize", "TR_DOWN", "download_queue_size", FALSE>>,
    <<"tr_sessionSetQueueSize", "TR_UP", "seed_queue_size", FALSE>>,
    <<"tr_sessionSetQueueEnabled", "TR_DOWN", "download_queue_enabled", FALSE>>,
    <<"tr_sessionSetQueueStalledMinutes", "-", "queue_stalled_minutes", FALSE>>,
    <<"tr_sessionSetDHTEnabled", "-", "dht_enabled", FALSE>>,
    <<"tr_sessionSetUTPEnabled", "-", "utp_enabled", FALSE>>,
    <<"tr_sessionSetLPDEnabled", "-", "lpd_enabled", FALSE>>,
    <<"tr_sessionSetRPCPort", "-", "rpc_port", FALSE>>,
    <<"tr_sessionSetRPCEnabled", "-", "rpc_enabled", FALSE>>,
    <<"tr_sessionSetRPCWhitelist", "-", "rpc_whitelist", FALSE>>,
    <<"tr_sessionSetRPCWhitelistEnabled", "-", "rpc_whitelist_enabled", FALSE>>,
    <<"tr_sessionSetRPCUsername", "-", "rpc_username", FALSE>>,
    <<"tr_sessionSetRPCPassword", "-", "rpc_password", FALSE>>,
    <<"tr_sessionSetRPCPasswordEnabled", "-", "rpc_authentication_required", FALSE>>,
    <<"tr_sessionSetAltSpeed_KBps", "TR_UP", "alt_speed_up", FALSE>>,
    <<"tr_sessionSetAltSpeed_KBps", "TR_DOWN", "alt_speed_down", FALSE>>,
    <<"tr_sessionUseAltSpeed", "-", "alt_speed_enabled", FALSE>>,
    <<"tr_sessionSetAltSpeedBegin", "-", "alt_speed_time_begin", FALSE>>,
    <<"tr_sessionSetAltSpeedEnd", "-", "alt_speed_time_end", FALSE>>,
    <<"tr_sessionUseAltSpeedTime", "-", "alt_speed_time_enabled", FALSE>>,
    <<"tr_sessionSetAltSpeedDay", "-", "alt_speed_time_day", FALSE>>,
    <<"tr_sessionSetPeerPortRandomOnStart", "-", "peer_port_random_on_start", FALSE>>,
    <<"tr_sessionSetIncompleteDir", "-", "incomplete_dir", FALSE>>,
    <<"tr_sessionSetIncompleteDirEnabled", "-", "incomplete_dir_enabled", FALSE>>,
    <<"tr_sessionSetScriptEnabled", "TR_SCRIPT_ON_TORRENT_DONE", "script_torrent_done_enabled", FALSE>>,
    <<"tr_sessionSetScript", "TR_SCRIPT_ON_TORRENT_DONE", "script_torrent_done_filename", FALSE>>,
    <<"tr_sessionSetScriptEnabled", "TR_SCRIPT_ON_TORRENT_DONE_SEEDING", "script_torrent_done_seeding_enabled", FALSE>>,
    <<"tr_sessionSetScript", "TR_SCRIPT_ON_TORRENT_DONE_SEEDING", "script_torrent_done_seeding_filename", FALSE>>,
    <<"tr_sessionSetPaused", "-", "start_added_torrents", TRUE>>,
    <<"tr_sessionSetDeleteSource", "-", "trash_original_torrent_files", FALSE>> }

\* the keys tr_sessionGetSettings reports
SessionKeys == { e[3] : e \in EngineSetters }

\* the settings after the engine has executed setter fn(extra, val)
EngineApply(set, fn, extra, val) ==
  LET hit == { e \in EngineSetters : e[1] = fn /\ e[2] = extra }
  IN  IF hit = { } THEN set
      ELSE LET e == CHOOSE x \in hit : TRUE
           IN  [ set EXCEPT ![e[3]] = IF e[4] THEN ~val ELSE val ]

\* tr_variantToStr(v, TR_VARIANT_FMT_BENC) of a value of a settings dictionary:
\* a boolean is written as the integer 0 or 1
Benc(type, v) ==
  IF type = "flag" THEN << "i", IF v THEN 1 ELSE 0, "e" >>
  ELSE IF type = "string" THEN << "s", v, "e" >>
  ELSE IF type = "double" THEN << "r", v, "e" >>
  ELSE << "i", v, "e" >>

(***************************************************************************)
(* The preference relay.                                                   *)
(***************************************************************************)
\* variant of on_prefs_changed: the cases of the upload direction pass TR_DOWN
on_prefs_changed_tr_down(s, key, ub) ==
  Then(Deref(s, s.core_, ub), LAMBDA d :
    IF ~Running(d) \/ ~s.core_ THEN d
    ELSE IF key = "show_notification_area_icon" THEN
      IF s.prefs[key] /\ ~s.icon_ THEN
        Then(Deref(s, s.wind_, ub), LAMBDA w :
          IF Running(w) /\ s.wind_ THEN [ w EXCEPT !.icon_ = TRUE ] ELSE w)
      ELSE IF ~s.prefs[key] /\ s.icon_ THEN [ s EXCEPT !.icon_ = FALSE ]
      ELSE s
    ELSE IF key \in SwitchKeys THEN
      Then(SwitchCase(key), LAMBDA c :
      Then(IF c[3] = "TR_UP" THEN "TR_DOWN" ELSE c[3], LAMBDA dir :
      Then(IF c[5] THEN ~s.prefs[key] ELSE s.prefs[key], LAMBDA val :
      Then(Deref(s, s.session_open, ub), LAMBDA e :
        IF ~Running(e) \/ ~s.session_open THEN e
        ELSE [ Call(e, c[2], dir, val) EXCEPT
                 !.settings = EngineApply(@, c[2], dir, val) ]))))
    ELSE s)

\* on_prefs_changed: core_->get_session() and the setter called on it
on_prefs_changed(s, key, ub) ==
  Then(Deref(s, s.core_, ub), LAMBDA d :
    IF ~Running(d) \/ ~s.core_ THEN d
    ELSE IF key = "show_notification_area_icon" THEN
      IF s.prefs[key] /\ ~s.icon_ THEN
        Then(Deref(s, s.wind_, ub), LAMBDA w :
          IF Running(w) /\ s.wind_ THEN [ w EXCEPT !.icon_ = TRUE ] ELSE w)
      ELSE IF ~s.prefs[key] /\ s.icon_ THEN [ s EXCEPT !.icon_ = FALSE ]
      ELSE s
    ELSE IF key \in SwitchKeys THEN
      Then(SwitchCase(key), LAMBDA c :
      Then(IF c[5] THEN ~s.prefs[key] ELSE s.prefs[key], LAMBDA val :
      Then(Deref(s, s.session_open, ub), LAMBDA e :
        IF ~Running(e) \/ ~s.session_open THEN e
        ELSE [ Call(e, c[2], c[3], val) EXCEPT
                 !.settings = EngineApply(@, c[2], c[3], val),
                 !.toggled =
                   IF key # "alt_speed_enabled" THEN @
                   ELSE IF val THEN @ \cup { "alt-speed-enabled" }
                   ELSE @ \ { "alt-speed-enabled" } ])))
    ELSE s)

(***************************************************************************)
(* The main window.                                                        *)
(***************************************************************************)
\* presentMainWindow
presentMainWindow(s, ub) ==
  Then(Deref(s, s.wind_, ub), LAMBDA d :
    IF ~Running(d) THEN d
    ELSE [ d EXCEPT !.toggled = @ \cup { "toggle-main-window" },
                    !.is_iconified_ = FALSE,
                    !.visible = IF s.wind_ THEN TRUE ELSE @ ])

\* variant of hideMainWindow: gtr_action_set_toggled is left out
hideMainWindow_untoggled(s, ub) ==
  Then(Deref(s, s.wind_, ub), LAMBDA d :
    IF ~Running(d) THEN d
    ELSE [ d EXCEPT !.visible = FALSE,
                    !.is_iconified_ = TRUE ])

\* hideMainWindow
hideMainWindow(s, ub) ==
  Then(Deref(s, s.wind_, ub), LAMBDA d :
    IF ~Running(d) THEN d
    ELSE [ d EXCEPT !.toggled = @ \ { "toggle-main-window" },
                    !.visible = FALSE,
                    !.is_iconified_ = TRUE ])

\* toggleMainWindow
toggleMainWindow(s, ub) ==
  IF s.is_iconified_ THEN presentMainWindow(s, ub) ELSE hideMainWindow(s, ub)

(***************************************************************************)
(* Shutdown.                                                               *)
(***************************************************************************)
\* variant of start_session_close: the lambda connects on_session_closed to the
\* idle signal before it calls tr_sessionClose
start_session_close_connect_first(s, th) ==
  [ s EXCEPT !.closeThread = th, !.closePc = "tr_sessionClose",
             !.idle = Append(@, IdleCb("on_session_closed", "-", 0)) ]

\* variant of start_session_close: the lambda is called in place instead of
\* being handed to a std::thread
start_session_close_in_place(s, th) ==
  [ s EXCEPT !.closeThread = "ui", !.closePc = "tr_sessionClose" ]

\* the lambda of the std::thread of on_app_exit, started on thread th: it is at
\* the call of tr_sessionClose
start_session_close(s, th) ==
  [ s EXCEPT !.closeThread = th, !.closePc = "tr_sessionClose" ]

\* variant of on_app_exit: tr_sessionClose is called by on_app_exit itself, which
\* returns when the close has
on_app_exit_blocking(s, ub) ==
  IF s.is_closing_ THEN s
  ELSE
    Then([ s EXCEPT !.is_closing_ = TRUE,
                    !.timer_ = FALSE,
                    !.refresh_actions_tag_ = FALSE,
                    !.idle = Without(@, "refresh_actions") ], LAMBDA a :
    Then(Deref(a, a.wind_ /\ a.core_, ub), LAMBDA d :
      IF ~Running(d) \/ ~(a.wind_ /\ a.core_) THEN d
      ELSE [ d EXCEPT !.closing_panel = TRUE,
                      !.model = { },
                      !.selected = { },
                      !.session_open = FALSE,
                      !.closeThread = "ui",
                      !.closePc = "tr_sessionClose" ]))

\* variant of on_app_exit: timer_.disconnect() is left out
on_app_exit_keeping_timer(s, ub) ==
  IF s.is_closing_ THEN s
  ELSE
    Then([ s EXCEPT !.is_closing_ = TRUE,
                    !.refresh_actions_tag_ = FALSE,
                    !.idle = Without(@, "refresh_actions") ], LAMBDA a :
    Then(Deref(a, a.wind_ /\ a.core_, ub), LAMBDA d :
      IF ~Running(d) \/ ~(a.wind_ /\ a.core_) THEN d
      ELSE start_session_close(
             [ d EXCEPT !.closing_panel = TRUE,
                        !.model = { },
                        !.selected = { },
                        !.session_open = FALSE ],
             "bg")))

\* variant of on_app_exit: the test of is_closing_ is left out
on_app_exit_unguarded(s, ub) ==
  Then([ s EXCEPT !.is_closing_ = TRUE,
                  !.timer_ = FALSE,
                  !.refresh_actions_tag_ = FALSE,
                  !.idle = Without(@, "refresh_actions") ], LAMBDA a :
  Then(Deref(a, a.wind_ /\ a.core_, ub), LAMBDA d :
    IF ~Running(d) \/ ~(a.wind_ /\ a.core_) THEN d
    ELSE start_session_close(
           [ d EXCEPT !.closing_panel = TRUE,
                      !.model = { },
                      !.selected = { },
                      !.session_open = FALSE ],
           "bg")))

\* on_app_exit
on_app_exit(s, ub) ==
  IF s.is_closing_ THEN s
  ELSE
    Then([ s EXCEPT !.is_closing_ = TRUE,
                    !.timer_ = FALSE,
                    !.refresh_actions_tag_ = FALSE,
                    !.idle = Without(@, "refresh_actions") ], LAMBDA a :
    Then(Deref(a, a.wind_ /\ a.core_, ub), LAMBDA d :
      IF ~Running(d) \/ ~(a.wind_ /\ a.core_) THEN d
      ELSE start_session_close(
             [ d EXCEPT !.closing_panel = TRUE,
                        !.model = { },
                        !.selected = { },
                        !.session_open = FALSE ],
             "bg")))

\* tr_sessionClose returns in the lambda
session_close_returns(s) ==
  [ s EXCEPT !.closePc = "connect", !.torrents = { } ]

\* variant of connect_session_closed: the lambda ends after tr_sessionClose
\* without connecting anything
connect_session_closed_nothing(s) ==
  [ s EXCEPT !.closePc = "finished" ]

\* the lambda's Glib::signal_idle().connect(on_session_closed)
connect_session_closed(s) ==
  [ s EXCEPT !.idle = Append(@, IdleCb("on_session_closed", "-", 0)),
             !.closePc = "finished" ]

\* on_session_closed, run by thread th
on_session_closed(s, th) ==
  [ s EXCEPT !.details_ = << >>,
             !.prefs_ = FALSE,
             !.wind_ = FALSE,
             !.visible = FALSE,
             !.closing_panel = FALSE,
             !.core_ = FALSE,
             !.icon_ = FALSE,
             !.error_list_ = << >>,
             !.duplicates_list_ = << >>,
             !.hold = @ - 1,
             !.teardownThread = th ]

(***************************************************************************)
(* Torrent-add errors.                                                     *)
(***************************************************************************)
\* Glib::path_get_basename
path_get_basename(msg) == msg[Len(msg)]

\* variant of show_torrent_errors: files.clear() is left out
show_torrent_errors_keeping(s, primary, which, ub) ==
  Then(Deref(s, s.wind_, ub), LAMBDA d :
    IF ~Running(d) THEN d
    ELSE [ Call(d, "Gtk::MessageDialog::show", "-", primary) EXCEPT
             !.dialogs = Append(@,
               [ primary |-> primary,
                 files |-> IF which = "error_list_" THEN s.error_list_
                           ELSE s.duplicates_list_,
                 bullets |-> FALSE ]) ])

\* show_torrent_errors: one dialog listing files, and files is cleared
show_torrent_errors(s, primary, which, ub) ==
  LET files == IF which = "error_list_" THEN s.error_list_ ELSE s.duplicates_list_
      d == Deref(s, s.wind_, ub)
      dlg == [ primary |-> primary, files |-> files,
               bullets |-> Len(files) > 1 ]
  IN  IF ~Running(d) THEN d
      ELSE IF which = "error_list_"
        THEN [ Call(d, "Gtk::MessageDialog::show", "-", primary) EXCEPT
                 !.dialogs = Append(@, dlg), !.error_list_ = << >> ]
        ELSE [ Call(d, "Gtk::MessageDialog::show", "-", primary) EXCEPT
                 !.dialogs = Append(@, dlg), !.duplicates_list_ = << >> ]

\* variant of flush_torrent_errors: the second if is an else if, so duplicates
\* wait while corrupt torrents are shown
flush_torrent_errors_else_if(s, ub) ==
  IF s.error_list_ # << >>
  THEN show_torrent_errors(s, "Couldn't add corrupt torrents", "error_list_", ub)
  ELSE IF s.duplicates_list_ # << >>
  THEN show_torrent_errors(s, "Couldn't add duplicate torrents", "duplicates_list_", ub)
  ELSE s

\* flush_torrent_errors
flush_torrent_errors(s, ub) ==
  Then(IF s.error_list_ # << >>
       THEN show_torrent_errors(s,
              IF Len(s.error_list_) = 1 THEN "Couldn't add corrupt torrent"
              ELSE "Couldn't add corrupt torrents", "error_list_", ub)
       ELSE s, LAMBDA a :
    IF Running(a) /\ a.duplicates_list_ # << >>
    THEN show_torrent_errors(a,
           IF Len(a.duplicates_list_) = 1 THEN "Couldn't add duplicate torrent"
           ELSE "Couldn't add duplicate torrents", "duplicates_list_", ub)
    ELSE a)

\* variant of on_core_error: the default case only breaks
on_core_error_default_break(s, code, msg, ub) ==
  IF code = "ERR_ADD_TORRENT_ERR"
    THEN [ s EXCEPT !.error_list_ = Append(@, path_get_basename(msg)),
                    !.recorded = Append(@, << code, path_get_basename(msg) >>) ]
  ELSE IF code = "ERR_ADD_TORRENT_DUP"
    THEN [ s EXCEPT !.duplicates_list_ = Append(@, msg),
                    !.recorded = Append(@, << code, msg >>) ]
  ELSE IF code = "ERR_NO_MORE_TORRENTS" THEN flush_torrent_errors(s, ub)
  ELSE s

\* variant of on_core_error: the cases of the two add errors fall through to
\* the flush
on_core_error_fallthrough(s, code, msg, ub) ==
  IF code = "ERR_ADD_TORRENT_ERR"
    THEN Then([ s EXCEPT !.error_list_ = Append(@, path_get_basename(msg)),
                         !.recorded = Append(@, << code, path_get_basename(msg) >>) ],
              LAMBDA a : flush_torrent_errors(a, ub))
  ELSE IF code = "ERR_ADD_TORRENT_DUP"
    THEN Then([ s EXCEPT !.duplicates_list_ = Append(@, msg),
                         !.recorded = Append(@, << code, msg >>) ],
              LAMBDA a : flush_torrent_errors(a, ub))
  ELSE IF code = "ERR_NO_MORE_TORRENTS" THEN flush_torrent_errors(s, ub)
  ELSE Stop(s, "aborted")

\* on_core_error
on_core_error(s, code, msg, ub) ==
  IF code = "ERR_ADD_TORRENT_ERR"
    THEN [ s EXCEPT !.error_list_ = Append(@, path_get_basename(msg)),
                    !.recorded = Append(@, << code, path_get_basename(msg) >>) ]
  ELSE IF code = "ERR_ADD_TORRENT_DUP"
    THEN [ s EXCEPT !.duplicates_list_ = Append(@, msg),
                    !.recorded = Append(@, << code, msg >>) ]
  ELSE IF code = "ERR_NO_MORE_TORRENTS" THEN flush_torrent_errors(s, ub)
  ELSE Stop(s, "aborted")

(***************************************************************************)
(* Selection and the actions.                                              *)
(***************************************************************************)
RECURSIVE SetToSeq(_)
\* the elements of a finite set of integers in ascending order: the order in
\* which selected_foreach visits the rows
SetToSeq(S) ==
  IF S = { } THEN << >>
  ELSE LET m == CHOOSE x \in S : \A y \in S : x <= y
       IN  << m >> \o SetToSeq(S \ { m })

RECURSIVE SortIds(_)
\* std::sort of a list of ids
SortIds(list) ==
  IF list = << >> THEN << >>
  ELSE LET i == CHOOSE j \in 1 .. Len(list) : \A k \in 1 .. Len(list) : list[j] <= list[k]
       IN  << list[i] >> \o SortIds(SubSeq(list, 1, i - 1) \o SubSeq(list, i + 1, Len(list)))

RECURSIVE Reverse(_)
\* a list back to front
Reverse(list) ==
  IF list = << >> THEN << >> ELSE Reverse(Tail(list)) \o << Head(list) >>

\* get_selected_torrent_ids: the ids of the selected rows, in the order of the
\* rows of the list
get_selected_torrent_ids(s) ==
  IF s.sort_reversed THEN Reverse(SetToSeq(s.selected)) ELSE SetToSeq(s.selected)

\* the character operator<< writes for one decimal digit
DigitChar(d) == << "0", "1", "2", "3", "4", "5", "6", "7", "8", "9" >>[d + 1]

RECURSIVE Decimal(_)
\* gstr << id: the decimal digits of an id
Decimal(n) ==
  IF n < 10 THEN << DigitChar(n) >>
  ELSE Decimal(n \div 10) \o << DigitChar(n % 10) >>

RECURSIVE WriteIds(_, _)
\* the loop over tmp: each id is written, followed by sep
WriteIds(list, sep) ==
  IF list = << >> THEN << >>
  ELSE Decimal(Head(list)) \o sep \o WriteIds(Tail(list), sep)

\* variant of get_details_dialog_key: the copy of the list is not sorted
get_details_dialog_key_unsorted(id_list) == WriteIds(id_list, << " " >>)

\* variant of get_details_dialog_key: the ids are written without the blank
get_details_dialog_key_unseparated(id_list) == WriteIds(SortIds(id_list), << >>)

\* get_details_dialog_key: the ids in ascending order, each followed by a blank
get_details_dialog_key(id_list) == WriteIds(SortIds(id_list), << " " >>)

\* the selection changes to sel: its changed signal runs refresh_actions_soon
set_selection(s, sel) ==
  IF sel = s.selected THEN s
  ELSE Then([ s EXCEPT !.selected = sel ], LAMBDA a : refresh_actions_soon(a))

\* details_.try_emplace(key, dialog), the dialog showing the torrents ids
try_emplace(map, key, ids) ==
  IF key \in DOMAIN map THEN map
  ELSE [ k \in DOMAIN map \cup { key } |-> IF k = key THEN ids ELSE map[k] ]

\* details_.erase(key)
erase(map, key) == [ k \in DOMAIN map \ { key } |-> map[k] ]

\* variant of the close handler of a details dialog: details_.clear()
details_on_close_clear(s, key) == [ s EXCEPT !.details_ = << >> ]

\* the close handler of a details dialog: [this, key]() { details_.erase(key); }
details_on_close(s, key) == [ s EXCEPT !.details_ = erase(@, key) ]

\* show_details_dialog_for_selected_torrents
show_details_dialog_for_selected_torrents(s, ub) ==
  Then(get_selected_torrent_ids(s), LAMBDA ids :
  Then(get_details_dialog_key(ids), LAMBDA key :
    IF key \in DOMAIN s.details_
    THEN Call(s, "gtr_window_present", "DetailsDialog", key)
    ELSE Then(Deref(s, s.wind_, ub), LAMBDA d :
           IF ~Running(d) \/ ~s.wind_ THEN d
           ELSE Then(Call(d, "DetailsDialog::create", "set_torrents", ids), LAMBDA c :
                  Call([ c EXCEPT !.details_ = try_emplace(@, key, { ids[i] : i \in 1 .. Len(ids) }) ],
                       "gtr_window_present", "DetailsDialog", key)))))

\* tr_rpc_request_exec_json on core_->get_session()
rpc_request(s, method, ids, ub) ==
  LET d == Deref(s, s.core_ /\ s.session_open, ub)
  IN  IF ~Running(d) \/ ~(s.core_ /\ s.session_open) THEN d
      ELSE Call(d, "tr_rpc_request_exec_json", method, ids)

\* variant of call_rpc_for_selected_torrents: the request is executed without
\* the test of the size of the id list
call_rpc_for_selected_torrents_untested(s, method, ub) ==
  Then(Deref(s, s.core_, ub), LAMBDA d :
    IF Running(d) THEN rpc_request(d, method, s.selected, ub) ELSE d)

\* call_rpc_for_selected_torrents: the state it leaves
call_rpc_for_selected_torrents(s, method, ub) ==
  Then(Deref(s, s.core_, ub), LAMBDA d :
    IF Running(d) /\ s.selected # { } THEN rpc_request(d, method, s.selected, ub)
    ELSE d)

\* the value call_rpc_for_selected_torrents returns
rpc_invoked(s) == s.selected # { }

\* remove_selected
remove_selected(s, delete_files, ub) ==
  IF s.selected # { }
  THEN LET d == Deref(s, s.wind_, ub)
       IN  IF ~Running(d) \/ ~s.wind_ THEN d
           ELSE Call(d, "gtr_confirm_remove", delete_files, s.selected)
  ELSE s

\* a dialog that owns itself is created over the main window and shown
show_transient(s, dialog, ub) ==
  LET d == Deref(s, s.wind_, ub)
  IN  IF ~Running(d) \/ ~s.wind_ THEN d ELSE Call(d, dialog, "show", 0)

\* the if / else-if chain of actions_handler: for each branch, in order, the
\* names its condition compares action_name with
ActionChain ==
  << { "open-torrent-from-url" }, { "open-torrent" }, { "show-stats" }, { "donate" },
     { "pause-all-torrents" }, { "start-all-torrents" },
     { "copy-magnet-link-to-clipboard" }, { "relocate-torrent" },
     { "torrent-start", "torrent-start-now", "torrent-stop", "torrent-reannounce",
       "torrent-verify", "queue-move-top", "queue-move-up", "queue-move-down",
       "queue-move-bottom" },
     { "open-torrent-folder" }, { "show-torrent-properties" }, { "new-torrent" },
     { "remove-torrent" }, { "delete-torrent" }, { "quit" }, { "select-all" },
     { "deselect-all" }, { "edit-preferences" }, { "toggle-message-log" },
     { "show-about-dialog" }, { "help" }, { "toggle-main-window" },
     { "present-main-window" } >>

\* the branches whose condition holds for action_name
MatchingBranches(action_name) ==
  { i \in 1 .. Len(ActionChain) : action_name \in ActionChain[i] }

\* the branch the chain takes: the first whose condition holds, 0 for the final else
BranchOf(action_name) ==
  IF MatchingBranches(action_name) = { } THEN 0
  ELSE CHOOSE i \in MatchingBranches(action_name) :
         \A j \in MatchingBranches(action_name) : i <= j

\* the body of branch b of actions_handler
run_branch(s, b, action_name, ub) ==
  CASE b = 1 -> show_transient(s, "TorrentUrlChooserDialog", ub)
    [] b = 2 -> show_transient(s, "TorrentFileChooserDialog", ub)
    [] b = 3 -> show_transient(s, "StatsDialog", ub)
    [] b = 4 -> Call(s, "gtr_open_uri", "donate", 0)
    [] b = 5 -> rpc_request(s, "torrent-stop", "all", ub)
    [] b = 6 -> rpc_request(s, "torrent-start", "all", ub)
    [] b = 7 -> IF s.selected # { }
                THEN LET d == Deref(s, s.wind_, ub)
                     IN  IF ~Running(d) \/ ~s.wind_ THEN d
                         ELSE Call(d, "copy_magnet_link_to_clipboard", "-",
                                   Head(SetToSeq(s.selected)))
                ELSE s
    [] b = 8 -> IF s.selected # { } THEN show_transient(s, "RelocateDialog", ub) ELSE s
    [] b = 9 -> call_rpc_for_selected_torrents(s, action_name, ub)
    [] b = 10 -> IF s.selected # { }
                 THEN LET d == Deref(s, s.core_, ub)
                      IN  IF ~Running(d) \/ ~s.core_ THEN d
                          ELSE Call(d, "Session::open_folder", "-", s.selected)
                 ELSE s
    [] b = 11 -> show_details_dialog_for_selected_torrents(s, ub)
    [] b = 12 -> show_transient(s, "MakeDialog", ub)
    [] b = 13 -> remove_selected(s, FALSE, ub)
    [] b = 14 -> remove_selected(s, TRUE, ub)
    [] b = 15 -> on_app_exit(s, ub)
    [] b = 16 -> set_selection(s, s.model)
    [] b = 17 -> set_selection(s, { })
    [] b = 18 -> IF ~s.prefs_
                 THEN LET d == Deref(s, s.wind_, ub)
                      IN  IF ~Running(d) \/ ~s.wind_ THEN d
                          ELSE Call([ d EXCEPT !.prefs_ = TRUE ],
                                    "gtr_window_present", "PrefsDialog", 0)
                 ELSE Call(s, "gtr_window_present", "PrefsDialog", 0)
    [] b = 19 -> IF ~s.msgwin_
                 THEN LET d == Deref(s, s.wind_, ub)
                      IN  IF ~Running(d) \/ ~s.wind_ THEN d
                          ELSE [ d EXCEPT !.msgwin_ = TRUE,
                                          !.toggled = @ \cup { "toggle-message-log" } ]
                 ELSE [ s EXCEPT !.msgwin_ = FALSE,
                                 !.toggled = @ \ { "toggle-message-log" } ]
    [] b = 20 -> show_transient(s, "AboutDialog", ub)
    [] b = 21 -> Call(s, "gtr_open_uri", "help", 0)
    [] b = 22 -> toggleMainWindow(s, ub)
    [] b = 23 -> presentMainWindow(s, ub)
    [] OTHER -> Stop(Call(s, "g_error", "Unhandled action", action_name), "aborted")

\* variant of actions_handler: the chain has no final else, so a name that
\* matches no condition does nothing
actions_handler_no_else(s, action_name, ub) ==
  Then(BranchOf(action_name), LAMBDA b :
    IF b = 0 THEN s
    ELSE Then(run_branch(s, b, action_name, ub), LAMBDA t :
           IF Running(t) /\ b = 9 /\ rpc_invoked(s) THEN update_model_soon(t) ELSE t))

\* actions_handler
actions_handler(s, action_name, ub) ==
  Then(BranchOf(action_name), LAMBDA b :
  Then(run_branch(s, b, action_name, ub), LAMBDA t :
    IF Running(t) /\ b = 9 /\ rpc_invoked(s) THEN update_model_soon(t) ELSE t))

\* gtr_action_activate: the action's activation runs gtr_actions_handler, unless
\* the action is insensitive
gtr_action_activate(s, action_name, ub) ==
  IF action_name \in s.sensitive THEN actions_handler(s, action_name, ub) ELSE s

\* variant of winclose: it returns false, so the event is propagated further
winclose_propagating(s, ub) ==
  Then(IF s.icon_ THEN gtr_action_activate(s, "toggle-main-window", ub)
       ELSE on_app_exit(s, ub), LAMBDA t :
    IF Running(t) THEN Call(t, "return", "winclose", FALSE) ELSE t)

\* winclose; its return value is logged as the last call of the event
winclose(s, ub) ==
  Then(IF s.icon_ THEN gtr_action_activate(s, "toggle-main-window", ub)
       ELSE on_app_exit(s, ub), LAMBDA t :
    IF Running(t) THEN Call(t, "return", "winclose", TRUE) ELSE t)

\* the handler of the close request has asked for the event to be propagated
Propagated(s) ==
  /\ s.calls # << >>
  /\ s.calls[Len(s.calls)] = << "return", "winclose", FALSE >>

\* the close request of the main window, as connected by gtr_window_on_close:
\* winclose runs first, and the toolkit's default handler, which destroys the
\* window, runs only if winclose has not returned true
close_request(s, ub) ==
  Then(winclose(s, ub), LAMBDA t :
    IF Running(t) /\ Propagated(t)
    THEN [ Call(t, "Gtk::Window", "destroy", 0) EXCEPT !.visible = FALSE ]
    ELSE t)

ActionNames == UNION { ActionChain[i] : i \in 1 .. Len(ActionChain) }

(***************************************************************************)
(* Changes that come from RPC.                                             *)
(***************************************************************************)
RECURSIVE KeySeq(_)
\* the keys of a settings dictionary in the order tr_variantDictChild gives them
KeySeq(K) ==
  IF K = { } THEN << >>
  ELSE LET k == CHOOSE x \in K : TRUE IN << k >> \o KeySeq(K \ { k })

\* the stored value of a key, or nothing when the dictionary has no such key
SettingChanged(s, key) ==
  \/ key \notin DOMAIN s.prefs
  \/ Benc(KeyType(key), s.prefs[key]) # Benc(KeyType(key), s.settings[key])

RECURSIVE emit_prefs_changed(_, _, _)
\* core_->signal_prefs_changed().emit for each key of changed_keys, in order
emit_prefs_changed(s, changed_keys, ub) ==
  IF changed_keys = << >> \/ ~Running(s) THEN s
  ELSE Then([ s EXCEPT !.emitted = Append(@, Head(changed_keys)) ], LAMBDA e :
       Then(on_prefs_changed(e, Head(changed_keys), ub), LAMBDA t :
         emit_prefs_changed(t, Tail(changed_keys), ub)))

\* the settings tr_sessionGetSettings writes into the stored dictionary: the
\* keys of the session are set, the other keys stay
StoredSettings(s) ==
  [ k \in DOMAIN s.prefs \cup SessionKeys |->
      IF k \in SessionKeys THEN s.settings[k] ELSE s.prefs[k] ]

\* the settings this event and the one before it were handled with, newest first
Reported(s) ==
  << s.settings >> \o (IF s.reported = << >> THEN << >> ELSE << s.reported[1] >>)

\* variant of the TR_RPC_SESSION_CHANGED case: tr_sessionGetSettings(session,
\* oldvals) is called before the loop that compares, not after it
session_changed_store_first(s, ub) ==
  Then(Deref(s, s.core_ /\ s.session_open, ub), LAMBDA d :
    IF ~Running(d) \/ ~(s.core_ /\ s.session_open) THEN d
    ELSE
      Then([ d EXCEPT !.prefs = StoredSettings(s), !.reported = Reported(s) ],
           LAMBDA stored :
      Then(SelectSeq(KeySeq(SessionKeys), LAMBDA k : SettingChanged(stored, k)),
           LAMBDA changed_keys :
        emit_prefs_changed(stored, changed_keys, ub))))

\* variant of the TR_RPC_SESSION_CHANGED case: the stored dictionary is not
\* updated from the session
session_changed_no_store(s, ub) ==
  Then(Deref(s, s.core_ /\ s.session_open, ub), LAMBDA d :
    IF ~Running(d) \/ ~(s.core_ /\ s.session_open) THEN d
    ELSE
      Then(SelectSeq(KeySeq(SessionKeys), LAMBDA k : SettingChanged(s, k)),
           LAMBDA changed_keys :
      Then([ d EXCEPT !.prefs =
               [ k \in DOMAIN s.prefs \cup SessionKeys |->
                   IF k \in DOMAIN s.prefs THEN s.prefs[k] ELSE s.settings[k] ],
             !.reported = Reported(s) ],
           LAMBDA stored :
        emit_prefs_changed(stored, changed_keys, ub))))

\* variant of the TR_RPC_SESSION_CHANGED case: the signals are emitted before
\* tr_sessionGetSettings(session, oldvals) overwrites the stored values, so the
\* handlers read what was stored for the keys the dictionary held
session_changed_emit_first(s, ub) ==
  Then(Deref(s, s.core_ /\ s.session_open, ub), LAMBDA d :
    IF ~Running(d) \/ ~(s.core_ /\ s.session_open) THEN d
    ELSE
      Then(SelectSeq(KeySeq(SessionKeys), LAMBDA k : SettingChanged(s, k)),
           LAMBDA changed_keys :
      Then([ d EXCEPT !.prefs =
               [ k \in DOMAIN s.prefs \cup SessionKeys |->
                   IF k \in DOMAIN s.prefs THEN s.prefs[k] ELSE s.settings[k] ],
             !.reported = Reported(s) ],
           LAMBDA unstored :
      Then(emit_prefs_changed(unstored, changed_keys, ub), LAMBDA t :
        IF ~Running(t) THEN t ELSE [ t EXCEPT !.prefs = StoredSettings(t) ]))))

\* the TR_RPC_SESSION_CHANGED case of on_rpc_changed_idle
session_changed(s, ub) ==
  Then(Deref(s, s.core_ /\ s.session_open, ub), LAMBDA d :
    IF ~Running(d) \/ ~(s.core_ /\ s.session_open) THEN d
    ELSE
      Then(SelectSeq(KeySeq(SessionKeys), LAMBDA k : SettingChanged(s, k)),
           LAMBDA changed_keys :
      Then([ d EXCEPT !.prefs = StoredSettings(s), !.reported = Reported(s) ],
           LAMBDA stored :
        emit_prefs_changed(stored, changed_keys, ub))))

\* Session::find_torrent: the torrent of the session with this id, if any
find_torrent(s, id) == s.session_open /\ id \in s.torrents

\* variant of on_rpc_changed_idle: TR_RPC_TORRENT_ADDED adds the row without
\* looking the torrent up
on_rpc_changed_idle_unchecked_add(s, type, torrent_id, ub) ==
  CASE type = "TR_RPC_SESSION_CLOSE" -> gtr_action_activate(s, "quit", ub)
    [] type = "TR_RPC_TORRENT_ADDED" ->
         Then(Deref(s, s.core_, ub), LAMBDA d :
           IF Running(d) /\ s.core_ /\ TRUE
           THEN [ d EXCEPT !.model = @ \cup { torrent_id } ]
           ELSE d)
    [] type \in { "TR_RPC_TORRENT_REMOVING", "TR_RPC_TORRENT_TRASHING" } ->
         Then(Deref(s, s.core_, ub), LAMBDA d :
           IF Running(d) /\ s.core_
           THEN Then(Call([ d EXCEPT !.model = @ \ { torrent_id },
                                     !.torrents = IF s.session_open
                                                  THEN @ \ { torrent_id } ELSE @ ],
                          "Session::remove_torrent",
                          type = "TR_RPC_TORRENT_TRASHING", torrent_id),
                     LAMBDA r : set_selection(r, s.selected \ { torrent_id }))
           ELSE d)
    [] type = "TR_RPC_SESSION_CHANGED" -> session_changed(s, ub)
    [] type \in { "TR_RPC_TORRENT_CHANGED", "TR_RPC_TORRENT_MOVED",
                  "TR_RPC_TORRENT_STARTED", "TR_RPC_TORRENT_STOPPED",
                  "TR_RPC_SESSION_QUEUE_POSITIONS_CHANGED" } -> s
    [] OTHER -> Stop(s, "aborted")

\* on_rpc_changed_idle
on_rpc_changed_idle(s, type, torrent_id, ub) ==
  CASE type = "TR_RPC_SESSION_CLOSE" -> gtr_action_activate(s, "quit", ub)
    [] type = "TR_RPC_TORRENT_ADDED" ->
         Then(Deref(s, s.core_, ub), LAMBDA d :
           IF Running(d) /\ s.core_ /\ find_torrent(s, torrent_id)
           THEN [ d EXCEPT !.model = @ \cup { torrent_id } ]
           ELSE d)
    [] type \in { "TR_RPC_TORRENT_REMOVING", "TR_RPC_TORRENT_TRASHING" } ->
         Then(Deref(s, s.core_, ub), LAMBDA d :
           IF Running(d) /\ s.core_
           THEN Then(Call([ d EXCEPT !.model = @ \ { torrent_id },
                                     !.torrents = IF s.session_open
                                                  THEN @ \ { torrent_id } ELSE @ ],
                          "Session::remove_torrent",
                          type = "TR_RPC_TORRENT_TRASHING", torrent_id),
                     LAMBDA r : set_selection(r, s.selected \ { torrent_id }))
           ELSE d)
    [] type = "TR_RPC_SESSION_CHANGED" -> session_changed(s, ub)
    [] type \in { "TR_RPC_TORRENT_CHANGED", "TR_RPC_TORRENT_MOVED",
                  "TR_RPC_TORRENT_STARTED", "TR_RPC_TORRENT_STOPPED",
                  "TR_RPC_SESSION_QUEUE_POSITIONS_CHANGED" } -> s
    [] OTHER -> Stop(s, "aborted")

\* variant of on_rpc_changed: the event is handled on the thread of the caller
on_rpc_changed_in_place(s, type, torrent_id) ==
  Call(on_rpc_changed_idle(s, type, torrent_id, "continue"),
       "return", "-", "TR_RPC_NOREMOVE")

\* on_rpc_changed
on_rpc_changed(s, type, torrent_id) ==
  Call([ s EXCEPT !.idle = Append(@, IdleCb("on_rpc_changed_idle", type, torrent_id)) ],
       "return", "-", "TR_RPC_NOREMOVE")

(***************************************************************************)
(* Files and links dropped on the main window.                             *)
(***************************************************************************)
\* variant of open_files: do_start does not look at start_paused_
open_files_ignoring_paused(s, files, ub) ==
  Then(s.prefs["start_added_torrents"], LAMBDA do_start :
  Then(s.prefs["show_options_window"], LAMBDA do_prompt :
  Then(Deref(s, s.core_, ub), LAMBDA d :
    IF ~Running(d) \/ ~s.core_ THEN d
    ELSE Call(d, "Session::add_files", << do_start, do_prompt, TRUE >>, files))))

\* open_files
open_files(s, files, ub) ==
  Then(s.prefs["start_added_torrents"] /\ ~s.start_paused_, LAMBDA do_start :
  Then(s.prefs["show_options_window"], LAMBDA do_prompt :
  Then(Deref(s, s.core_, ub), LAMBDA d :
    IF ~Running(d) \/ ~s.core_ THEN d
    ELSE Call(d, "Session::add_files", << do_start, do_prompt, TRUE >>, files))))

RECURSIVE StripLeft(_)
\* a text without its leading blanks
StripLeft(text) ==
  IF text # << >> /\ Head(text) = " " THEN StripLeft(Tail(text)) ELSE text

\* gtr_str_strip: a text without its leading and trailing blanks
gtr_str_strip(text) == Reverse(StripLeft(Reverse(StripLeft(text))))

\* Gio::File::create_for_uri for every uri of a list
create_for_uris(uris) == [ i \in 1 .. Len(uris) |-> [ uri |-> uris[i] ] ]

\* core_->add_from_url(text)
add_from_url(s, text, ub) ==
  Then(Deref(s, s.core_, ub), LAMBDA d :
    IF ~Running(d) \/ ~s.core_ THEN d
    ELSE Call(d, "Session::add_from_url", "-", text))

\* on_drag_data_received of the GTK 3 build: the selection data carries a list
\* of uris and a text, either of which may be empty
on_drag_data_received_gtk3(s, uris, text, ub) ==
  Then(IF uris # << >> THEN open_files(s, create_for_uris(uris), ub)
       ELSE IF gtr_str_strip(text) # << >> THEN add_from_url(s, gtr_str_strip(text), ub)
       ELSE s, LAMBDA a :
    IF Running(a) THEN Call(a, "drag_finish", "-", TRUE) ELSE a)

\* on_drag_data_received of the GTK 4 build: the value holds a list of files, a
\* string, or something else
on_drag_data_received_gtk4(s, value, ub) ==
  IF value.holds = "GDK_TYPE_FILE_LIST" THEN open_files(s, value.files, ub)
  ELSE IF value.holds = "string" /\ gtr_str_strip(value.text) # << >>
  THEN add_from_url(s, gtr_str_strip(value.text), ub)
  ELSE s

(***************************************************************************)
(* Signals.                                                                *)
(***************************************************************************)
\* signal_handler
signal_handler(s, sig, ub) ==
  Then([ s EXCEPT !.global_sigcount = @ + 1 ], LAMBDA t :
    IF t.global_sigcount > 1 THEN Stop(t, "killed")
    ELSE IF sig \in { "SIGINT", "SIGTERM" } THEN actions_handler(t, "quit", ub)
    ELSE t)

(***************************************************************************)
(* Startup.                                                                *)
(***************************************************************************)
\* main_window_setup
main_window_setup(s, ub) ==
  Then(refresh_actions_soon(s), LAMBDA a : refresh_actions(a, ub))

\* app_setup
app_setup(s, ub) ==
  Then([ s EXCEPT !.prefs["show_notification_area_icon"] =
                    IF s.is_iconified_ THEN TRUE ELSE @,
                  !.model = s.torrents ], LAMBDA a :
  Then(main_window_setup(a, ub), LAMBDA b :
  Then(on_prefs_changed(b, "show_notification_area_icon", ub), LAMBDA c :
  Then([ c EXCEPT !.timer_ = TRUE ], LAMBDA c1 :
  Then(update_model_once(c1, ub), LAMBDA d :
  Then(IF ~d.is_iconified_
       THEN [ d EXCEPT !.visible = TRUE,
                       !.toggled = @ \cup { "toggle-main-window" } ]
       ELSE [ d EXCEPT !.is_iconified_ = FALSE,
                       !.toggled = @ \ { "toggle-main-window" } ], LAMBDA e :
    IF ~e.prefs["user_has_given_informed_consent"]
    THEN [ e EXCEPT !.consent_dialog = TRUE ]
    ELSE e))))))

\* what create_from_commandline and set_as_default_for_type can do: return, throw
\* a Gio::Error, or throw an exception of another class (both are documented to
\* throw Glib::Error, the base class; a failed write of the handler's files is
\* reported in the file error domain, which is thrown as Glib::FileError)
RegistrationOutcomes == { "registered", "Gio::Error", "Glib::Error" }

\* has_magnet_link_handler: a default application info for the scheme exists
has_magnet_link_handler(s) == s.magnet_handler # "none"

\* register_magnet_link_handler: the handler block names Gio::Error only, so an
\* exception of any other class leaves the function, and with it
\* ensure_magnet_handler_exists and on_startup, which have no handler either
register_magnet_link_handler(s, outcome) ==
  IF outcome = "registered" THEN [ s EXCEPT !.magnet_handler = "transmission-gtk" ]
  ELSE IF outcome = "Gio::Error" THEN Call(s, "g_warning", "Couldn't register", 0)
  ELSE Call(s, "throw", "on_startup", outcome)

\* ensure_magnet_handler_exists; outcome tells how the registration goes
ensure_magnet_handler_exists(s, outcome) ==
  IF ~has_magnet_link_handler(s) THEN register_magnet_link_handler(s, outcome)
  ELSE s

\* on_startup: the session is created from the stored preferences
on_startup(s, outcome, ub) ==
  Then([ s EXCEPT !.started = TRUE,
                  !.session_open = TRUE,
                  !.settings = [ k \in SessionKeys |->
                                 IF k \in DOMAIN s.prefs THEN s.prefs[k]
                                 ELSE DefaultPref(k) ],
                  !.core_ = TRUE,
                  !.wind_ = TRUE,
                  !.hold = @ + 1 ], LAMBDA a :
  Then(app_setup(a, ub), LAMBDA b :
  Then(IF b.prefs["blocklist_enabled"] /\ b.prefs["blocklist_updates_enabled"]
       THEN Call(b, "Session::blocklist_update", "-", 0)
       ELSE b, LAMBDA c :
    ensure_magnet_handler_exists(c, outcome))))

\* on_activate
on_activate(s, ub) ==
  Then([ s EXCEPT !.activation_count_ = @ + 1 ], LAMBDA a :
    IF a.is_iconified_ /\ a.activation_count_ = 1 THEN a
    ELSE gtr_action_activate(a, "present-main-window", ub))

(***************************************************************************)
(* The state after construction: Impl's constructor stores its arguments,  *)
(* nothing else exists yet.                                                *)
(***************************************************************************)
InitWith(paused, iconified, tors, show_icon, consent, magnet, absent) ==
  /\ started = FALSE
  /\ start_paused_ = paused
  /\ is_iconified_ = iconified
  /\ is_closing_ = FALSE
  /\ activation_count_ = 0
  /\ timer_ = FALSE
  /\ update_model_soon_tag_ = FALSE
  /\ refresh_actions_tag_ = FALSE
  /\ icon_ = FALSE
  /\ wind_ = FALSE
  /\ core_ = FALSE
  /\ msgwin_ = FALSE
  /\ prefs_ = FALSE
  /\ error_list_ = << >>
  /\ duplicates_list_ = << >>
  /\ details_ = << >>
  /\ global_sigcount = 0
  /\ hold = 0
  /\ visible = FALSE
  /\ toggled = { }
  /\ sensitive = ActionNames
  /\ closing_panel = FALSE
  /\ consent_dialog = FALSE
  /\ magnet_handler = magnet
  /\ idle = << >>
  /\ closeThread = "none"
  /\ closePc = "none"
  /\ teardownThread = "none"
  /\ proc = "running"
  /\ session_open = FALSE
  /\ torrents = tors
  /\ model = { }
  /\ selected = { }
  /\ sort_reversed = FALSE
  /\ prefs = [ k \in Keys \ absent |->
                 IF k = "show_notification_area_icon" THEN show_icon
                 ELSE IF k = "user_has_given_informed_consent" THEN consent
                 ELSE DefaultPref(k) ]
  /\ settings = [ k \in SessionKeys |-> DefaultPref(k) ]
  /\ edits = 0
  /\ dialogs = << >>
  /\ recorded = << >>
  /\ calls = << >>
  /\ emitted = << >>
  /\ reported = << >>
  /\ last = << "constructor", "-" >>

(***************************************************************************)
(* Actions: one per event the toolkit, the engine or the user delivers.    *)
(***************************************************************************)
\* the event h(a) begins: the log of the previous event is dropped
Begin(h, a) == [ State EXCEPT !.calls = << >>, !.emitted = << >>, !.last = << h, a >> ]

\* the event h(a) is handled by handler f
Handle(h, a, f(_)) == \E s \in { Begin(h, a) } : Commit(f(s))

\* the UI thread is in its event loop, not inside a blocking call
UiFree ==
  /\ proc = "running"
  /\ ~(closeThread = "ui" /\ closePc \in { "tr_sessionClose", "connect" })

\* the application runs and its main window exists
UiUp == UiFree /\ started /\ wind_

OnStartup ==
  /\ UiFree /\ ~started
  /\ \E outcome \in RegistrationOutcomes, ub \in UbOutcomes :
       Handle("on_startup", "-", LAMBDA s : on_startup(s, outcome, ub))

OnActivate ==
  /\ UiUp /\ activation_count_ < MaxActivations
  /\ \E ub \in UbOutcomes : Handle("on_activate", "-", LAMBDA s : on_activate(s, ub))

\* the user activates an action from a menu, a button or a shortcut
UserAction(action_name) ==
  /\ UiUp
  /\ \E ub \in UbOutcomes :
       Handle("actions_handler", action_name,
              LAMBDA s : gtr_action_activate(s, action_name, ub))

\* gtr_actions_handler is called with a name
ActionsHandler(action_name) ==
  /\ UiUp
  /\ \E ub \in UbOutcomes :
       Handle("actions_handler", action_name,
              LAMBDA s : actions_handler(s, action_name, ub))

WinClose ==
  /\ UiUp /\ visible
  /\ \E ub \in UbOutcomes : Handle("winclose", "-", LAMBDA s : close_request(s, ub))

\* the "Quit Now" button of the closing panel: exit(0)
QuitNow ==
  /\ UiUp /\ visible /\ closing_panel
  /\ Handle("quit_now", "-", LAMBDA s : Stop(s, "exited"))

\* the response of the informed-consent dialog
ConsentResponse(accept) ==
  /\ UiFree /\ consent_dialog
  /\ Handle("consent", accept, LAMBDA s :
       IF accept
       THEN [ s EXCEPT !.prefs["user_has_given_informed_consent"] = TRUE,
                       !.consent_dialog = FALSE ]
       ELSE Stop(s, "exited"))

\* the user changes the selection of the torrent list
SelectRows(sel) ==
  /\ UiUp /\ ~closing_panel /\ sel \subseteq model /\ sel # selected
  /\ Handle("selection_changed", "-", LAMBDA s : set_selection(s, sel))

\* the engine's RPC thread reports an event through on_rpc_changed; the session
\* exists until tr_sessionClose has returned
RpcEvent(type, torrent_id) ==
  /\ proc = "running" /\ started
  /\ closePc \in { "none", "tr_sessionClose" }
  /\ Len(idle) < MaxIdle
  /\ Handle("on_rpc_changed", type, LAMBDA s :
       on_rpc_changed(
         [ s EXCEPT !.torrents = IF type = "TR_RPC_TORRENT_ADDED" /\ closePc = "none"
                                 THEN @ \cup { torrent_id } ELSE @ ],
         type, torrent_id))

\* an RPC client changes a setting of the session: the engine stores it and
\* reports TR_RPC_SESSION_CHANGED
RpcSessionSet(key, val) ==
  /\ proc = "running" /\ started /\ closePc = "none"
  /\ Len(idle) < MaxIdle /\ edits < MaxEdits
  /\ val # settings[key]
  /\ Handle("on_rpc_changed", "TR_RPC_SESSION_CHANGED", LAMBDA s :
       on_rpc_changed([ s EXCEPT !.settings[key] = val, !.edits = @ + 1 ],
                      "TR_RPC_SESSION_CHANGED", -1))

\* the UI event loop dispatches the first idle source; every callback returns
\* false, so the source is removed
IdleDispatch ==
  /\ UiFree /\ idle # << >>
  /\ \E ub \in UbOutcomes, cb \in { Head(idle) } :
       Handle(cb.fn, cb.type, LAMBDA s0 :
         Then([ s0 EXCEPT !.idle = Tail(@) ], LAMBDA s :
           CASE cb.fn = "on_session_closed" -> on_session_closed(s, "ui")
             [] cb.fn = "refresh_actions" -> refresh_actions(s, ub)
             [] cb.fn = "update_model_once" -> update_model_once(s, ub)
             [] OTHER -> on_rpc_changed_idle(s, cb.type, cb.id, ub)))

\* the update timer fires
TimerTick ==
  /\ UiFree /\ timer_
  /\ \E ub \in UbOutcomes : Handle("update_model_loop", "-", LAMBDA s : update_model_loop(s, ub))

\* tr_sessionClose returns on the thread that called it
SessionCloseReturns ==
  /\ proc = "running" /\ closePc = "tr_sessionClose"
  /\ Handle("tr_sessionClose", "-", LAMBDA s : session_close_returns(s))

\* the thread of the lambda connects on_session_closed to the idle signal
ConnectSessionClosed ==
  /\ proc = "running" /\ closePc = "connect"
  /\ Handle("signal_idle_connect", "-", LAMBDA s : connect_session_closed(s))

\* core_ emits its add-error signal
CoreError(code, msg) ==
  /\ UiUp /\ core_
  /\ code \in { "ERR_ADD_TORRENT_ERR", "ERR_ADD_TORRENT_DUP" } => Len(recorded) < MaxRecorded
  /\ code = "ERR_NO_MORE_TORRENTS" => Len(dialogs) < MaxDialogs
  /\ \E ub \in UbOutcomes :
       Handle("on_core_error", code, LAMBDA s : on_core_error(s, code, msg, ub))

\* a preference is edited through core_, which stores the value and emits
\* prefs-changed for the key
PrefEdit(key, val) ==
  /\ UiUp /\ core_ /\ edits < MaxEdits
  /\ key \in DOMAIN prefs => val # prefs[key]
  /\ \E ub \in UbOutcomes :
       Handle("on_prefs_changed", key, LAMBDA s0 :
         Then([ s0 EXCEPT !.prefs = [ k \in DOMAIN @ \cup { key } |->
                                       IF k = key THEN val ELSE @[k] ],
                          !.edits = @ + 1 ], LAMBDA s :
           on_prefs_changed(s, key, ub)))

\* SIGINT or SIGTERM is delivered
Signal(sig) ==
  /\ proc = "running" /\ started /\ global_sigcount < MaxSignals
  /\ \E ub \in UbOutcomes : Handle("signal_handler", sig, LAMBDA s : signal_handler(s, sig, ub))

\* SIGINT or SIGTERM is delivered while on_startup runs: the handlers are
\* installed before the session, the core and the main window are created, so
\* signal_handler interrupts on_startup with core_ and wind_ still null, and
\* on_startup goes on when signal_handler returns
SignalInStartup(sig) ==
  /\ UiFree /\ ~started /\ global_sigcount < MaxSignals
  /\ \E outcome \in RegistrationOutcomes, ub \in UbOutcomes :
       Handle("signal_handler", sig, LAMBDA s :
         Then(signal_handler(s, sig, ub), LAMBDA t :
           IF Running(t) THEN on_startup(t, outcome, ub) ELSE t))

\* the user closes the preferences dialog
ClosePrefsDialog ==
  /\ UiFree /\ prefs_
  /\ Handle("close", "PrefsDialog", LAMBDA s : [ s EXCEPT !.prefs_ = FALSE ])

\* the user closes a details dialog
CloseDetailsDialog(key) ==
  /\ UiFree /\ key \in DOMAIN details_
  /\ Handle("details_on_close", key, LAMBDA s : details_on_close(s, key))

\* something is dropped on the main window (GTK 3 build)
DropGtk3(uris, text) ==
  /\ UiUp
  /\ \E ub \in UbOutcomes :
       Handle("on_drag_data_received", [ uris |-> uris, text |-> text ], LAMBDA s :
         on_drag_data_received_gtk3(s, uris, text, ub))

\* something is dropped on the main window (GTK 4 build)
DropGtk4(value) ==
  /\ UiUp
  /\ \E ub \in UbOutcomes :
       Handle("on_drag_data_received",
              [ uris |-> IF value.holds = "GDK_TYPE_FILE_LIST"
                         THEN [ i \in 1 .. Len(value.files) |-> value.files[i].uri ]
                         ELSE << >>,
                text |-> IF value.holds = "string" THEN value.text ELSE << >> ],
              LAMBDA s : on_drag_data_received_gtk4(s, value, ub))

\* the user sorts the torrent list the other way round
ReverseSortOrder ==
  /\ UiUp
  /\ Handle("sort", "-", LAMBDA s : [ s EXCEPT !.sort_reversed = ~@ ])

(***************************************************************************)
(* Specifications.                                                         *)
(***************************************************************************)
\* Startup, the window, quit from every source and the session-close thread.
Init ==
  \E iconified \in BOOLEAN, show_icon \in BOOLEAN :
    InitWith(FALSE, iconified, TorrentIds, show_icon, TRUE, "other", { })

\* the actions the user can still reach while the shell starts, runs and closes
LifecycleActions ==
  { "quit", "toggle-main-window", "present-main-window", "edit-preferences" }

\* the RPC events delivered while the shell runs and closes, with the id of
\* their torrent (-1 when the event has none)
LifecycleRpcEvents ==
  { << "TR_RPC_SESSION_CLOSE", -1 >>, << "TR_RPC_TORRENT_CHANGED", 1 >> }

Next ==
  \/ OnStartup
  \/ \E a \in LifecycleActions : UserAction(a)
  \/ WinClose
  \/ QuitNow
  \/ \E e \in LifecycleRpcEvents : RpcEvent(e[1], e[2])
  \/ IdleDispatch
  \/ TimerTick
  \/ SessionCloseReturns
  \/ ConnectSessionClosed
  \/ \E sig \in { "SIGINT", "SIGTERM" } : Signal(sig)
  \/ ClosePrefsDialog

Spec == Init /\ [][Next]_vars

\* the same, with the scheduling the shutdown relies on: a running thread goes
\* on running, and the GLib main loop dispatches a source that stays ready
LiveSpec ==
  /\ Init /\ [][Next]_vars
  /\ WF_vars(SessionCloseReturns)
  /\ WF_vars(ConnectSessionClosed)
  /\ WF_vars(IdleDispatch)

(***************************************************************************)
(* Shutdown (C1 - C4).                                                     *)
(***************************************************************************)
\* on_session_closed has run
TornDown == teardownThread # "none"

\* the number of on_session_closed sources in the idle queue
PendingTeardowns == Cardinality({ i \in 1 .. Len(idle) : idle[i].fn = "on_session_closed" })

\* the fields of Impl and of the widgets it owns
ShellState ==
  << started, start_paused_, is_iconified_, is_closing_, activation_count_,
     timer_, update_model_soon_tag_, refresh_actions_tag_, icon_, wind_, core_,
     msgwin_, prefs_, error_list_, duplicates_list_, details_, hold, visible,
     toggled, sensitive, closing_panel, consent_dialog, model, selected, prefs >>

\* C1: after on_app_exit has started the shutdown, on_session_closed runs only
\* after tr_sessionClose has returned: while tr_sessionClose runs the main
\* window, the core and the hold are still there and nothing was torn down, and
\* a teardown is found only once the lambda has finished.
C1_TeardownAfterClose ==
  /\ closePc = "tr_sessionClose" =>
        wind_ /\ core_ /\ hold = 1 /\ ~TornDown
  /\ TornDown => closePc = "finished" /\ is_closing_

\* a shutdown that went all the way: the close returned and the UI was torn down
C1_Witness ==
  TornDown /\ closePc = "finished" /\ ~wind_ /\ ~core_ /\ ~icon_ /\ ~prefs_

\* C2: tr_sessionClose never runs on the UI thread and on_session_closed never
\* on the background thread; a step of the background thread leaves the shell's
\* state alone, and its last step appends the one on_session_closed idle source.
C2_ThreadConfinement ==
  /\ [](closePc # "none" => closeThread = "bg")
  /\ [](teardownThread \in { "none", "ui" })
  /\ [](PendingTeardowns <= 1 /\ (TornDown => PendingTeardowns = 0))
  /\ [][ closePc' # closePc /\ closePc # "none" =>
           /\ ShellState' = ShellState
           /\ idle' = IF closePc' = "finished"
                       THEN Append(idle, IdleCb("on_session_closed", "-", 0))
                       ELSE idle ]_vars

\* the background thread has enqueued the callback and the UI loop has not yet
\* run it
C2_Witness ==
  closeThread = "bg" /\ closePc = "finished" /\ PendingTeardowns = 1 /\ ~TornDown

\* C3: on_app_exit returns without waiting for tr_sessionClose: while the close is
\* in progress the UI thread is in its event loop and can dispatch the Quit Now
\* button, toggle-main-window, a second quit and the pending idle sources.
C3_UiNotBlocked ==
  (proc = "running" /\ closePc = "tr_sessionClose") =>
     /\ UiFree
     /\ ENABLED UserAction("toggle-main-window")
     /\ ENABLED UserAction("quit")
     /\ (visible => ENABLED QuitNow)
     /\ (idle # << >> => ENABLED IdleDispatch)

\* the window was toggled while tr_sessionClose was still running
C3_Witness ==
  /\ proc = "running" /\ closePc = "tr_sessionClose"
  /\ last = << "actions_handler", "toggle-main-window" >>

\* C4: once on_app_exit has started the shutdown, on_session_closed eventually
\* runs on the UI thread and the hold of on_startup is released, unless the
\* process ends first (Quit Now, a second signal).
C4_ShutdownCompletes ==
  (is_closing_ /\ closePc # "none") ~>
     ((teardownThread = "ui" /\ hold = 0) \/ proc # "running")

\* the hold is released while the process still runs
C4_Witness ==
  proc = "running" /\ is_closing_ /\ teardownThread = "ui" /\ hold = 0

(***************************************************************************)
(* Torrent-add errors (C5 - C7).                                           *)
(***************************************************************************)
\* the shell starts, core_ reports add errors and the end of the additions,
\* and the shell can be closed meanwhile
ErrorsNext ==
  \/ OnStartup
  \/ \E code \in ErrorCodes, msg \in Msgs : CoreError(code, msg)
  \/ UserAction("quit")
  \/ SessionCloseReturns
  \/ ConnectSessionClosed
  \/ IdleDispatch

ErrorsSpec == Init /\ [][ErrorsNext]_vars

\* the last event was the flush
Flushed == last = << "on_core_error", "ERR_NO_MORE_TORRENTS" >>

\* the number of error dialogs the last event opened
OpenedNow ==
  Cardinality({ i \in 1 .. Len(calls) : calls[i][1] = "Gtk::MessageDialog::show" })

\* the kind of error a dialog announces
DialogKind(d) ==
  IF d.primary \in { "Couldn't add corrupt torrent", "Couldn't add corrupt torrents" }
  THEN "ERR_ADD_TORRENT_ERR"
  ELSE "ERR_ADD_TORRENT_DUP"

RECURSIVE FilesOf(_, _)
\* the names the dialogs ds list for errors of a kind, in order
FilesOf(ds, kind) ==
  IF ds = << >> THEN << >>
  ELSE (IF DialogKind(Head(ds)) = kind THEN Head(ds).files ELSE << >>)
         \o FilesOf(Tail(ds), kind)

RECURSIVE NamesOf(_, _)
\* the names recorded in rs for errors of a kind, in order
NamesOf(rs, kind) ==
  IF rs = << >> THEN << >>
  ELSE (IF Head(rs)[1] = kind THEN << Head(rs)[2] >> ELSE << >>)
         \o NamesOf(Tail(rs), kind)

\* the number of names that were pending when the last event began
PendingBefore ==
  Len(recorded)
    - Len(FilesOf(SubSeq(dialogs, 1, Len(dialogs) - OpenedNow), "ERR_ADD_TORRENT_ERR"))
    - Len(FilesOf(SubSeq(dialogs, 1, Len(dialogs) - OpenedNow), "ERR_ADD_TORRENT_DUP"))

\* the kinds of error that were pending when the last event began
KindsPendingBefore ==
  { recorded[i][1] : i \in (Len(recorded) - PendingBefore + 1) .. Len(recorded) }

\* C5: handling ERR_ADD_TORRENT_ERR or ERR_ADD_TORRENT_DUP opens no dialog and
\* only appends the name to its pending list; the dialogs change only when
\* ERR_NO_MORE_TORRENTS is handled.
C5_ErrorsAreBatched ==
  [][ /\ last' = << "on_core_error", "ERR_ADD_TORRENT_ERR" >> =>
           /\ dialogs' = dialogs
           /\ duplicates_list_' = duplicates_list_
           /\ error_list_' = Append(error_list_, recorded'[Len(recorded')][2])
      /\ last' = << "on_core_error", "ERR_ADD_TORRENT_DUP" >> =>
           /\ dialogs' = dialogs
           /\ error_list_' = error_list_
           /\ duplicates_list_' = Append(duplicates_list_, recorded'[Len(recorded')][2])
      /\ dialogs' # dialogs => Flushed' ]_vars

\* two errors are pending and no dialog was opened
C5_Witness ==
  /\ last = << "on_core_error", "ERR_ADD_TORRENT_DUP" >>
  /\ error_list_ # << >> /\ duplicates_list_ # << >> /\ dialogs = << >>

\* C6, as claimed: a flush opens exactly one dialog whenever anything is
\* pending, also when both kinds of error are pending.
C6_SingleDialogPerFlush ==
  Flushed => OpenedNow = (IF PendingBefore > 0 THEN 1 ELSE 0)

\* C6, as the code has it: a flush opens one dialog for each kind of error that
\* is pending, each listing the names of its kind only; so one dialog when one
\* kind is pending and two when both are.
C6_OneDialogPerPendingKind ==
  (Flushed /\ proc = "running") =>
     /\ OpenedNow = Cardinality(KindsPendingBefore)
     /\ OpenedNow <= 2
     /\ \A i \in (Len(dialogs) - OpenedNow + 1) .. Len(dialogs) :
          /\ DialogKind(dialogs[i]) \in KindsPendingBefore
          /\ \A j \in (Len(dialogs) - OpenedNow + 1) .. Len(dialogs) :
               i # j => DialogKind(dialogs[i]) # DialogKind(dialogs[j])

\* a flush with both kinds pending has opened two dialogs
C6_Witness ==
  Flushed /\ proc = "running" /\ OpenedNow = 2 /\ Cardinality(KindsPendingBefore) = 2

\* C7: while the shell is up, the names recorded for each kind are exactly the
\* names the dialogs have listed followed by the names still pending, so each
\* recorded name is listed once, by the next flush, and never again; after a
\* flush both lists are empty; no dialog is empty, and a flush with nothing
\* pending opens none.
C7_EachNameListedOnce ==
  /\ ~TornDown =>
       /\ NamesOf(recorded, "ERR_ADD_TORRENT_ERR")
            = FilesOf(dialogs, "ERR_ADD_TORRENT_ERR") \o error_list_
       /\ NamesOf(recorded, "ERR_ADD_TORRENT_DUP")
            = FilesOf(dialogs, "ERR_ADD_TORRENT_DUP") \o duplicates_list_
  /\ (Flushed /\ proc = "running") => error_list_ = << >> /\ duplicates_list_ = << >>
  /\ \A i \in 1 .. Len(dialogs) : dialogs[i].files # << >>
  /\ (Flushed /\ PendingBefore = 0) => OpenedNow = 0

\* a second flush has listed the names recorded after the first one
C7_Witness ==
  /\ Flushed /\ OpenedNow = 1 /\ Len(dialogs) = 2
  /\ DialogKind(dialogs[1]) = DialogKind(dialogs[2])
  /\ error_list_ = << >> /\ duplicates_list_ = << >>

(***************************************************************************)
(* Dispatch on names and enum values (C8, C9).                             *)
(***************************************************************************)
\* the names gtr_actions_handler is called with: those of the chain and one
\* that no branch knows
HandlerInputs == ActionNames \cup { "no-such-action" }

\* the names this file itself activates or makes sensitive
ReferencedActions ==
  RefreshedActions \cup { "quit", "toggle-main-window", "present-main-window" }

\* the shell is started with its window shown and no tray icon
ShownInit == InitWith(FALSE, FALSE, TorrentIds, FALSE, TRUE, "other", { })

\* no RPC event waits in the idle queue
RpcQuiet == \A i \in 1 .. Len(idle) : idle[i].fn # "on_rpc_changed_idle"

\* RPC events of every type, one at a time, and add errors of every code
DispatchNext ==
  \/ OnStartup
  \/ \E type \in RpcTypeInputs : RpcQuiet /\ RpcEvent(type, 1)
  \/ IdleDispatch
  \/ \E code \in ErrorCodeInputs : CoreError(code, << "dir", "a.torrent" >>)
  \/ SessionCloseReturns
  \/ ConnectSessionClosed

DispatchSpec == ShownInit /\ [][DispatchNext]_vars

\* gtr_actions_handler is called with every name; a session close that quit
\* starts is still running
ActionsNext ==
  \/ OnStartup
  \/ \E action_name \in HandlerInputs : ActionsHandler(action_name)
  \/ IdleDispatch

ActionsSpec == ShownInit /\ [][ActionsNext]_vars

\* the last event called g_error("Unhandled action: ...")
UnhandledAction ==
  \E i \in 1 .. Len(calls) : calls[i][1] = "g_error" /\ calls[i][2] = "Unhandled action"

\* C8: on_rpc_changed_idle aborts exactly when its type is none of the ten known
\* types and on_core_error exactly when its code is none of the three known
\* codes; the abort is final, no event is handled after it.
C8_UnknownEnumAborts ==
  /\ last[1] = "on_rpc_changed_idle" => (proc = "aborted" <=> last[2] \notin RpcTypes)
  /\ last[1] = "on_core_error" => (proc = "aborted" <=> last[2] \notin ErrorCodes)
  /\ proc = "aborted" => ~ENABLED DispatchNext /\ ~ENABLED ActionsNext

\* an unknown callback type has reached on_rpc_changed_idle
C8_Witness ==
  last = << "on_rpc_changed_idle", "TR_RPC_OUT_OF_RANGE" >> /\ proc = "aborted"

\* C9: the conditions of the chain are disjoint and every action this file
\* refers to has its branch, so a recognised name runs exactly one branch and
\* never the final else; a name without a branch ends in g_error("Unhandled
\* action"), which aborts.
C9_OneBranchPerAction ==
  /\ \A action_name \in ActionNames : Cardinality(MatchingBranches(action_name)) = 1
  /\ ReferencedActions \subseteq ActionNames
  /\ last[1] = "actions_handler" =>
       /\ last[2] \in ActionNames => ~UnhandledAction /\ proc # "aborted"
       /\ last[2] \notin ActionNames => UnhandledAction /\ proc = "aborted"

\* a name without a branch was passed to actions_handler
C9_Witness ==
  last = << "actions_handler", "no-such-action" >> /\ UnhandledAction /\ proc = "aborted"

(***************************************************************************)
(* The preference relay (C10).                                             *)
(***************************************************************************)
\* preferences are edited in the shell and settings are changed over RPC, also
\* while a session close that quit started is running
PrefsNext ==
  \/ OnStartup
  \/ \E key \in Keys : \E val \in PrefValues(KeyType(key)) : PrefEdit(key, val)
  \/ \E key \in SessionKeys : \E val \in PrefValues(KeyType(key)) : RpcSessionSet(key, val)
  \/ IdleDispatch
  \/ UserAction("quit")

PrefsSpec == ShownInit /\ [][PrefsNext]_vars

\* the call the case of a key makes, given the stored preferences
SetterCall(key) ==
  << SwitchCase(key)[2], SwitchCase(key)[3],
     IF SwitchCase(key)[5] THEN ~prefs[key] ELSE prefs[key] >>

\* the call that hands the stored value of a session key to the setter of that key
StoredValueCall(key) ==
  LET e == CHOOSE x \in EngineSetters : x[3] = key
  IN  << e[1], e[2], prefs[key] >>

\* on_prefs_changed(key) has run to its end with the session open
Relayed(key) ==
  last = << "on_prefs_changed", key >> /\ proc = "running" /\ core_ /\ session_open

\* C10, as claimed: for every preference key of the session, on_prefs_changed
\* calls the setter of that key, and nothing else, with the stored value.
C10_SetterForEverySessionKey ==
  \A key \in SessionKeys : Relayed(key) => calls = << StoredValueCall(key) >>

\* C10, as the code has it: for a key with a case label, on_prefs_changed makes
\* exactly the one call of that case, with the stored value (negated for
\* start_added_torrents), after which the engine's setting of that key equals
\* the stored preference; for any other key it calls nothing.  The calls made
\* for a settings change reported over RPC are calls of such cases too.
C10_SetterForEachCaseLabel ==
  /\ \A key \in Keys :
       Relayed(key) =>
         IF key \in SwitchKeys
         THEN /\ calls = << SetterCall(key) >>
              /\ settings[key] = prefs[key]
              /\ (key # "start_added_torrents" => calls = << StoredValueCall(key) >>)
         ELSE calls = << >>
  /\ (last = << "on_rpc_changed_idle", "TR_RPC_SESSION_CHANGED" >> /\ proc = "running"
        /\ core_ /\ session_open) =>
       /\ \A i \in 1 .. Len(calls) : \E key \in SwitchKeys : calls[i] = SetterCall(key)
       /\ \A key \in SessionKeys : prefs[key] = settings[key]

\* the upload speed limit was edited and relayed
C10_Witness ==
  /\ Relayed("speed_limit_up") /\ prefs["speed_limit_up"] = 1
  /\ calls = << << "tr_sessionSetSpeedLimit_KBps", "TR_UP", 1 >> >>

(***************************************************************************)
(* Settings changed over RPC (C11, C12).                                   *)
(***************************************************************************)
\* the keys that are edited: a flag, an integer and a string with a case label,
\* the flag that is passed negated, and a session key without a case label
EditedKeys ==
  { "utp_enabled", "speed_limit_up", "download_dir", "start_added_torrents",
    "seed_queue_size" }

\* gtr_pref_get_all holds every key, or lacks one key of the session
SessionInit ==
  \E absent \in { { }, { "utp_enabled" } } :
    InitWith(FALSE, FALSE, TorrentIds, FALSE, TRUE, "other", absent)

\* settings are changed over RPC, TR_RPC_SESSION_CHANGED is reported with and
\* without a change, and preferences are edited in the shell
SessionNext ==
  \/ OnStartup
  \/ \E key \in EditedKeys : \E val \in PrefValues(KeyType(key)) : RpcSessionSet(key, val)
  \/ RpcEvent("TR_RPC_SESSION_CHANGED", -1)
  \/ \E key \in EditedKeys : \E val \in PrefValues(KeyType(key)) : PrefEdit(key, val)
  \/ IdleDispatch

SessionSpec == SessionInit /\ [][SessionNext]_vars

\* the last event was a TR_RPC_SESSION_CHANGED callback that ran to its end
SessionChangedHandled ==
  /\ last = << "on_rpc_changed_idle", "TR_RPC_SESSION_CHANGED" >>
  /\ proc = "running" /\ core_ /\ session_open

\* how many times the last event emitted prefs-changed for key
Emissions(ks, key) == Cardinality({ i \in 1 .. Len(ks) : ks[i] = key })

\* the stored dictionary holds the session's value of every key of the session
InLine ==
  \A key \in SessionKeys : key \in DOMAIN prefs /\ prefs[key] = settings[key]

\* C11: when TR_RPC_SESSION_CHANGED is handled, prefs-changed is emitted once
\* for each key of the session's settings that the stored dictionary lacks or
\* whose stored value serializes differently from the session's value, and not
\* at all for any other key.
C11_ChangedKeysReported ==
  [][ (SessionChangedHandled' /\ core_ /\ session_open) =>
        /\ \A i \in 1 .. Len(emitted') : emitted'[i] \in SessionKeys
        /\ \A key \in SessionKeys :
             Emissions(emitted', key) =
               IF key \notin DOMAIN prefs
                    \/ Benc(KeyType(key), prefs[key]) # Benc(KeyType(key), settings[key])
               THEN 1 ELSE 0 ]_vars

\* a change of the upload limit was reported, and the download directory, which
\* did not change, was not
C11_Witness ==
  /\ SessionChangedHandled
  /\ Emissions(emitted, "speed_limit_up") = 1
  /\ Emissions(emitted, "download_dir") = 0
  /\ settings["speed_limit_up"] = 1

DetailsIds == { 1, 2, 12 }

DetailsInit == InitWith(FALSE, FALSE, DetailsIds, FALSE, TRUE, "other", { })

\* show-torrent-properties, while fewer than MaxDetails dialogs are open or the
\* dialog of the selection is one of them
ShowProperties ==
  /\ \/ Cardinality(DOMAIN details_) < MaxDetails
     \/ get_details_dialog_key(get_selected_torrent_ids(State)) \in DOMAIN details_
  /\ UserAction("show-torrent-properties")

\* rows are selected, the list is sorted either way, dialogs are opened and closed
DetailsNext ==
  \/ OnStartup
  \/ \E sel \in SUBSET DetailsIds : SelectRows(sel)
  \/ ReverseSortOrder
  \/ ShowProperties
  \/ \E key \in DOMAIN details_ : CloseDetailsDialog(key)
  \/ IdleDispatch

DetailsSpec == DetailsInit /\ [][DetailsNext]_vars

\* the last event was show-torrent-properties
PropertiesShown == last = << "actions_handler", "show-torrent-properties" >>

\* the last event created a details dialog
DialogCreated(cs) == \E i \in 1 .. Len(cs) : cs[i][1] = "DetailsDialog::create"

\* the last event presented the details dialog registered under key
DialogPresented(cs, key) ==
  \E i \in 1 .. Len(cs) : cs[i] = << "gtr_window_present", "DetailsDialog", key >>

\* the open dialogs that show exactly the torrents ids
DialogsOf(map, ids) == { k \in DOMAIN map : map[k] = ids }

\* C13: details_ never holds two dialogs for the same set of torrents, and
\* show-torrent-properties for a selection whose dialog is open creates no
\* dialog, leaves details_ as it is and presents that dialog.
C13_OneDialogPerSelection ==
  /\ [](\A ids \in SUBSET DetailsIds : Cardinality(DialogsOf(details_, ids)) <= 1)
  /\ [][ (PropertiesShown' /\ UiUp /\ "show-torrent-properties" \in sensitive
            /\ DialogsOf(details_, selected) # { }) =>
           /\ details_' = details_
           /\ ~DialogCreated(calls')
           /\ \A key \in DialogsOf(details_, selected) : DialogPresented(calls', key) ]_vars

\* the dialog of a selection of two torrents was presented again, with the rows
\* in descending order, and no dialog was created
C13_Witness ==
  /\ PropertiesShown /\ sort_reversed /\ selected = { 2, 12 }
  /\ ~DialogCreated(calls)
  /\ DialogsOf(details_, selected) # { }
  /\ \A key \in DialogsOf(details_, selected) : DialogPresented(calls, key)

RECURSIVE Arrangements(_)
\* the lists that hold each id of a set once
Arrangements(S) ==
  IF S = { } THEN { << >> }
  ELSE UNION { { << x >> \o l : l \in Arrangements(S \ { x }) } : x \in S }

\* the lists of ids a selection can give, in any order of the rows
IdLists == UNION { Arrangements(S) : S \in SUBSET DetailsIds }

IdsOf(list) == { list[i] : i \in 1 .. Len(list) }

\* C14: the list of the selected ids and any other list of ids get the same key
\* exactly when they hold the same ids: the order of the rows does not matter,
\* and different sets of ids never share a key; the key registered for an open
\* dialog is the key of every list of its torrents.
C14_KeyIsCanonical ==
  /\ \A b \in IdLists :
       get_details_dialog_key(get_selected_torrent_ids(State)) = get_details_dialog_key(b)
         <=> selected = IdsOf(b)
  /\ \A key \in DOMAIN details_ : \A b \in Arrangements(details_[key]) :
       get_details_dialog_key(b) = key

\* the dialog of the torrents 1 and 2 is open, registered under "1 2 ", while
\* the rows are in descending order and torrent 12 is selected
C14_Witness ==
  /\ sort_reversed /\ selected = { 12 }
  /\ << "1", " ", "2", " " >> \in DOMAIN details_
  /\ details_[<< "1", " ", "2", " " >>] = { 1, 2 }

\* C15: closing a details dialog removes its entry from details_ and no other;
\* show-torrent-properties for a selection without an open dialog then creates
\* a dialog and registers it under the key of the selection.
C15_CloseRemovesOwnEntry ==
  /\ [][ \A key \in DOMAIN details_ :
           last' = << "details_on_close", key >> =>
             /\ DOMAIN details_' = DOMAIN details_ \ { key }
             /\ \A k \in DOMAIN details_' : details_'[k] = details_[k] ]_vars
  /\ [][ (PropertiesShown' /\ UiUp /\ "show-torrent-properties" \in sensitive
            /\ DialogsOf(details_, selected) = { } /\ proc' = "running") =>
           /\ DialogCreated(calls')
           /\ Cardinality(DialogsOf(details_', selected)) = 1
           /\ \A key \in DOMAIN details_ : key \in DOMAIN details_' ]_vars

\* one of two open dialogs was closed, and the other is still registered
C15_Witness ==
  /\ last = << "details_on_close", << "1", " " >> >>
  /\ DOMAIN details_ = { << "1", " ", "2", " " >> }

(***************************************************************************)
(* RPC requests for the selected torrents (C16).                           *)
(***************************************************************************)
\* the actions of the branch that calls call_rpc_for_selected_torrents
RpcActions ==
  { "torrent-start", "torrent-start-now", "torrent-stop", "torrent-reannounce",
    "torrent-verify", "queue-move-top", "queue-move-up", "queue-move-down",
    "queue-move-bottom" }

\* rows are selected and the actions are taken; idle callbacks run in between
SelectionNext ==
  \/ OnStartup
  \/ \E sel \in SUBSET TorrentIds : SelectRows(sel)
  \/ \E action_name \in RpcActions : ActionsHandler(action_name)
  \/ IdleDispatch
  \/ TimerTick

SelectionSpec == ShownInit /\ [][SelectionNext]_vars

\* the idle sources that run update_model_once
PendingUpdates(q) == { i \in 1 .. Len(q) : q[i].fn = "update_model_once" }

\* C16: with the session open, each of the nine actions executes one RPC request
\* if a torrent is selected, with the action name as method and the selected
\* ids as ids, and then update_model_once is pending exactly once (connected now
\* unless it already was); with nothing selected it executes no request and
\* schedules nothing.
C16_RequestForSelection ==
  [][ \A action_name \in RpcActions :
        (last' = << "actions_handler", action_name >> /\ UiUp /\ core_ /\ session_open) =>
          IF selected # { }
          THEN /\ calls' = << << "tr_rpc_request_exec_json", action_name, selected >> >>
               /\ update_model_soon_tag_'
               /\ Cardinality(PendingUpdates(idle')) = 1
               /\ idle' = IF update_model_soon_tag_ THEN idle
                          ELSE Append(idle, IdleCb("update_model_once", "-", 0))
          ELSE /\ calls' = << >>
               /\ idle' = idle
               /\ update_model_soon_tag_' = update_model_soon_tag_ ]_vars

\* queue-move-up was requested for torrent 2 alone and the update is pending
C16_Witness ==
  /\ last = << "actions_handler", "queue-move-up" >>
  /\ calls = << << "tr_rpc_request_exec_json", "queue-move-up", { 2 } >> >>
  /\ update_model_soon_tag_ /\ Cardinality(PendingUpdates(idle)) = 1

(***************************************************************************)
(* Events reported by the engine's RPC server (C17, C18).                  *)
(***************************************************************************)
\* an event of every type, with the id of its torrent (-1 when it has none);
\* torrent 3 is added over RPC, torrents 1 and 2 are there from the start
EventInputs ==
  { << "TR_RPC_TORRENT_ADDED", 3 >>, << "TR_RPC_TORRENT_REMOVING", 1 >>,
    << "TR_RPC_TORRENT_TRASHING", 2 >>, << "TR_RPC_SESSION_CLOSE", -1 >>,
    << "TR_RPC_SESSION_CHANGED", -1 >>, << "TR_RPC_TORRENT_CHANGED", 1 >>,
    << "TR_RPC_TORRENT_MOVED", 1 >>, << "TR_RPC_TORRENT_STARTED", 2 >>,
    << "TR_RPC_TORRENT_STOPPED", 2 >>,
    << "TR_RPC_SESSION_QUEUE_POSITIONS_CHANGED", -1 >> }

\* the types of which a second event is reported while one is still pending
OverlappingTypes == { "TR_RPC_TORRENT_ADDED", "TR_RPC_SESSION_CLOSE" }

\* events are reported while the shell runs and while it closes, rows are
\* selected, a setting is changed over RPC
EventsNext ==
  \/ OnStartup
  \/ \E e \in EventInputs :
       /\ RpcQuiet \/ e[1] \in OverlappingTypes
       /\ RpcEvent(e[1], e[2])
  \/ RpcQuiet /\ \E val \in PrefValues("int") : RpcSessionSet("speed_limit_up", val)
  \/ SelectRows({ 1 })
  \/ IdleDispatch
  \/ UserAction("quit")
  \/ SessionCloseReturns
  \/ ConnectSessionClosed

EventsSpec == ShownInit /\ [][EventsNext]_vars

\* the sources of callback fn in the idle queue, in order
Pending(q, fn) == SelectSeq(q, LAMBDA cb : cb.fn = fn)

\* the last event returned v
Returned(cs, v) == cs # << >> /\ cs[Len(cs)] = << "return", "-", v >>

\* C17: a step of on_rpc_changed leaves the shell's state as it is, appends one
\* on_rpc_changed_idle source with the type and the id of the event and returns
\* TR_RPC_NOREMOVE; on_rpc_changed_idle runs only from the UI loop, for the
\* source at the head of the queue, which it consumes; no other step adds or
\* removes such a source; and while the process runs the UI thread is in its
\* event loop, where it dispatches the pending sources.
C17_EventsDeferredToUiLoop ==
  /\ [][ last'[1] = "on_rpc_changed" =>
           /\ ShellState' = ShellState
           /\ \E e \in EventInputs :
                /\ e[1] = last'[2]
                /\ idle' = Append(idle, IdleCb("on_rpc_changed_idle", e[1], e[2]))
           /\ Returned(calls', "TR_RPC_NOREMOVE") ]_vars
  /\ [][ last'[1] = "on_rpc_changed_idle" =>
           /\ UiFree /\ idle # << >>
           /\ Head(idle).fn = "on_rpc_changed_idle" /\ Head(idle).type = last'[2]
           /\ Pending(idle', "on_rpc_changed_idle")
                = Tail(Pending(idle, "on_rpc_changed_idle")) ]_vars
  /\ [][ last'[1] \notin { "on_rpc_changed", "on_rpc_changed_idle" } =>
           Pending(idle', "on_rpc_changed_idle") = Pending(idle, "on_rpc_changed_idle") ]_vars
  /\ []((proc = "running" /\ idle # << >>) => UiFree)

\* two events are pending: torrent 3 was added in the engine and is not yet in
\* the list, and the session asked to be closed while the shell is not closing
C17_Witness ==
  /\ last[1] = "on_rpc_changed" /\ proc = "running"
  /\ Pending(idle, "on_rpc_changed_idle")
       = << IdleCb("on_rpc_changed_idle", "TR_RPC_TORRENT_ADDED", 3),
            IdleCb("on_rpc_changed_idle", "TR_RPC_SESSION_CLOSE", -1) >>
  /\ 3 \in torrents /\ 3 \notin model /\ ~is_closing_

\* the last step handled an event of this type, with core_ set before it
EventStep(type) ==
  /\ last' = << "on_rpc_changed_idle", type >> /\ core_
  /\ idle # << >> /\ Head(idle).type = type

\* the last event called Session::remove_torrent(id, delete_files)
RemoveCalled(cs, id, delete_files) ==
  \E i \in 1 .. Len(cs) : cs[i] = << "Session::remove_torrent", delete_files, id >>

\* the fields of Impl and of the widgets it owns, without the list of torrents
ShellStateButModel ==
  << started, start_paused_, is_iconified_, is_closing_, activation_count_,
     timer_, update_model_soon_tag_, icon_, wind_, core_, msgwin_, prefs_,
     error_list_, duplicates_list_, details_, hold, visible, toggled, sensitive,
     closing_panel, consent_dialog, prefs >>

\* C18: TR_RPC_TORRENT_ADDED adds the row of a torrent the session still has
\* and changes nothing otherwise; TR_RPC_TORRENT_REMOVING and _TRASHING take the
\* row out of the list through Session::remove_torrent, without and with the
\* deletion of the files; TR_RPC_SESSION_CLOSE starts the shutdown of quit; the
\* five other types leave the shell's state, the engine and the settings as
\* they are.
C18_EffectsOfEvents ==
  /\ [][ EventStep("TR_RPC_TORRENT_ADDED") =>
           /\ model' = IF session_open /\ Head(idle).id \in torrents
                       THEN model \cup { Head(idle).id } ELSE model
           /\ ShellStateButModel' = ShellStateButModel
           /\ selected' = selected /\ calls' = << >> ]_vars
  /\ [][ EventStep("TR_RPC_TORRENT_REMOVING") =>
           /\ model' = model \ { Head(idle).id }
           /\ RemoveCalled(calls', Head(idle).id, FALSE)
           /\ ~RemoveCalled(calls', Head(idle).id, TRUE)
           /\ ShellStateButModel' = ShellStateButModel ]_vars
  /\ [][ EventStep("TR_RPC_TORRENT_TRASHING") =>
           /\ model' = model \ { Head(idle).id }
           /\ RemoveCalled(calls', Head(idle).id, TRUE)
           /\ ~RemoveCalled(calls', Head(idle).id, FALSE)
           /\ ShellStateButModel' = ShellStateButModel ]_vars
  /\ [][ EventStep("TR_RPC_SESSION_CLOSE") =>
           /\ is_closing_' /\ closePc' # "none"
           /\ is_closing_ => ShellState' = ShellState ]_vars
  /\ [][ \A type \in { "TR_RPC_TORRENT_CHANGED", "TR_RPC_TORRENT_MOVED",
                       "TR_RPC_TORRENT_STARTED", "TR_RPC_TORRENT_STOPPED",
                       "TR_RPC_SESSION_QUEUE_POSITIONS_CHANGED" } :
           EventStep(type) =>
             /\ ShellState' = ShellState /\ calls' = << >>
             /\ idle' = Tail(idle)
             /\ torrents' = torrents /\ settings' = settings
             /\ proc' = proc /\ closePc' = closePc ]_vars

\* TR_RPC_TORRENT_ADDED was handled after quit had closed the session: the
\* torrent was not found and the list stayed empty
C18_Witness ==
  /\ last = << "on_rpc_changed_idle", "TR_RPC_TORRENT_ADDED" >>
  /\ is_closing_ /\ core_ /\ ~session_open /\ model = { } /\ proc = "running"

(***************************************************************************)
(* Drops on the main window (C19).                                         *)
(***************************************************************************)
\* the lists of uris a drop carries
DroppedUris == { << >>, << "a.torrent" >>, << "a.torrent", "b.torrent" >> }

\* the texts a drop carries: blanks and letters, up to MaxText characters
DroppedTexts == UNION { [ 1 .. n -> { " ", "u" } ] : n \in 0 .. MaxText }

\* the values a drop of the GTK 4 build hands over
DroppedValues ==
  { [ holds |-> "GDK_TYPE_FILE_LIST", files |-> create_for_uris(uris), text |-> << >> ] :
      uris \in DroppedUris }
    \cup { [ holds |-> "string", files |-> << >>, text |-> text ] : text \in DroppedTexts }
    \cup { [ holds |-> "other", files |-> << >>, text |-> << >> ] }

\* the application is started with or without --paused
DropInit ==
  \E paused \in BOOLEAN :
    InitWith(paused, FALSE, TorrentIds, FALSE, TRUE, "other", { })

\* the two preferences open_files reads are edited, and things are dropped
DropNext ==
  \/ OnStartup
  \/ \E key \in { "start_added_torrents", "show_options_window" } :
       \E val \in BOOLEAN : PrefEdit(key, val)
  \/ \E uris \in DroppedUris, text \in DroppedTexts : DropGtk3(uris, text)
  \/ \E value \in DroppedValues : DropGtk4(value)

DropSpec == DropInit /\ [][DropNext]_vars

\* the calls of the last event that add torrents
AddCalls(cs) ==
  SelectSeq(cs, LAMBDA c : c[1] \in { "Session::add_files", "Session::add_from_url" })

\* the last event was a drop that was handled with core_ set
Dropped == last[1] = "on_drag_data_received" /\ proc = "running" /\ core_

\* C19: a drop with a non-empty list of uris makes one call of add_files, with
\* the files of exactly those uris, do_start = start_added_torrents and not
\* started paused, and do_prompt = show_options_window; a drop without uris
\* whose text is not empty after stripping makes one call of add_from_url with
\* the stripped text; any other drop adds nothing (no call, or add_files with
\* an empty list of files).
C19_DropAddsFilesOrUrl ==
  Dropped =>
    IF last[2].uris # << >>
    THEN AddCalls(calls) =
           << << "Session::add_files",
                 << prefs["start_added_torrents"] /\ ~start_paused_,
                    prefs["show_options_window"], TRUE >>,
                 [ i \in 1 .. Len(last[2].uris) |-> [ uri |-> last[2].uris[i] ] ] >> >>
    ELSE IF gtr_str_strip(last[2].text) # << >>
    THEN AddCalls(calls) =
           << << "Session::add_from_url", "-", gtr_str_strip(last[2].text) >> >>
    ELSE \A i \in 1 .. Len(AddCalls(calls)) :
           AddCalls(calls)[i][1] = "Session::add_files" /\ AddCalls(calls)[i][3] = << >>

\* two files were dropped on an application that was started paused, with
\* start_added_torrents set: they are added without being started
C19_Witness ==
  /\ Dropped /\ start_paused_ /\ prefs["start_added_torrents"]
  /\ last[2].uris = << "a.torrent", "b.torrent" >>
  /\ Len(AddCalls(calls)) = 1
  /\ AddCalls(calls)[1][2] = << FALSE, FALSE, TRUE >>

(***************************************************************************)
(* Startup with and without a default handler of the magnet scheme.        *)
(***************************************************************************)
\* a default handler of the scheme exists ("other") or not ("none")
MagnetInit ==
  \E magnet \in { "none", "other" }, iconified \in BOOLEAN, consent \in BOOLEAN :
    InitWith(FALSE, iconified, TorrentIds, FALSE, consent, magnet, { })

\* the application starts, is activated, and the user answers and uses it
MagnetNext ==
  \/ OnStartup
  \/ OnActivate
  \/ \E accept \in BOOLEAN : ConsentResponse(accept)
  \/ \E a \in { "toggle-main-window", "show-stats" } : UserAction(a)
  \/ TimerTick

MagnetSpec == MagnetInit /\ [][MagnetNext]_vars

\* the calls of the last event that log a warning
Warnings(cs) == SelectSeq(cs, LAMBDA c : c[1] = "g_warning")

\* the exceptions that left the handler of the last event
Thrown(cs) == SelectSeq(cs, LAMBDA c : c[1] = "throw")

\* the state s, but for the registered handler and the warnings in the log
ButRegistration(s) ==
  [ s EXCEPT !.magnet_handler = "-",
             !.calls = SelectSeq(@, LAMBDA c : c[1] # "g_warning") ]

\* C20: on_startup attempts the registration only if no default handler of the
\* magnet scheme exists; if the attempt fails, one warning is logged, no
\* exception leaves on_startup, and the state is, but for the handler and the
\* warning, the state a successful registration leaves.
C20_RegistrationBestEffort ==
  [][OnStartup =>
       /\ has_magnet_link_handler(State) =>
            /\ magnet_handler' = magnet_handler
            /\ Warnings(calls') = << >> /\ Thrown(calls') = << >>
       /\ ~has_magnet_link_handler(State) /\ ~has_magnet_link_handler(State') =>
            /\ Len(Warnings(calls')) = 1
            /\ Thrown(calls') = << >>
            /\ \E ub \in UbOutcomes :
                 ButRegistration(State') =
                   ButRegistration(on_startup(Begin("on_startup", "-"), "registered", ub))
  ]_vars

\* the registration failed with an exception that is no Gio::Error: it left
\* on_startup and no warning was logged
C20_Witness ==
  /\ last[1] = "on_startup" /\ magnet_handler = "none"
  /\ Thrown(calls) # << >> /\ Warnings(calls) = << >>

(***************************************************************************)
(* An application that was started minimized.                              *)
(***************************************************************************)
\* the constructor was given is_iconified = true
MinimizedInit ==
  \E show_icon \in BOOLEAN, consent \in BOOLEAN :
    InitWith(FALSE, TRUE, TorrentIds, show_icon, consent, "other", { })

\* startup, activations, and the user hiding and showing the window in between
MinimizedNext ==
  \/ OnStartup
  \/ OnActivate
  \/ \E accept \in BOOLEAN : ConsentResponse(accept)
  \/ \E a \in { "toggle-main-window", "present-main-window" } : UserAction(a)
  \/ \E sel \in SUBSET TorrentIds : SelectRows(sel)
  \/ IdleDispatch
  \/ TimerTick

MinimizedSpec == MinimizedInit /\ [][MinimizedNext]_vars

\* C21: in an application started minimized, the activate signal that follows
\* on_startup directly leaves the main window hidden, and every later activate
\* signal leaves it presented.
C21_InitialActivateIgnored ==
  [][OnActivate =>
       IF last[1] = "on_startup" /\ activation_count_ = 0
       THEN ~visible' /\ "toggle-main-window" \notin toggled'
       ELSE activation_count_ >= 1 => visible'
  ]_vars

\* the first activate signal of an application started minimized has presented
\* the main window
C21_Witness ==
  /\ last[1] = "on_activate" /\ activation_count_ = 1
  /\ visible /\ "toggle-main-window" \in toggled /\ ~is_iconified_

(***************************************************************************)
(* Quit from several sources (C22).                                        *)
(***************************************************************************)
\* the step was a trigger of quit that reached on_app_exit: the quit action, a
\* close of the main window without a tray icon, the first SIGINT or SIGTERM,
\* or the dispatch of TR_RPC_SESSION_CLOSE
QuitTriggered ==
  /\ proc' = "running"
  /\ \/ last' = << "actions_handler", "quit" >> /\ "quit" \in sensitive
     \/ last' = << "winclose", "-" >> /\ ~icon_
     \/ last'[1] = "signal_handler" /\ global_sigcount = 0
     \/ last' = << "on_rpc_changed_idle", "TR_RPC_SESSION_CLOSE" >> /\ "quit" \in sensitive

\* C22: a trigger of quit that arrives when is_closing_ is set changes nothing
\* of the shell and starts nothing; the session-close thread is started at most
\* once, it calls tr_sessionClose at most once, on_session_closed runs at most
\* once, and the hold is released once at most and never below zero.
C22_QuitIsIdempotent ==
  [][/\ QuitTriggered /\ is_closing_ =>
          /\ ShellState' = ShellState
          /\ closeThread' = closeThread /\ closePc' = closePc
          /\ PendingTeardowns' = PendingTeardowns
     /\ closeThread' # closeThread => closeThread = "none" /\ ~is_closing_
     /\ closePc' # closePc =>
          << closePc, closePc' >> \in { << "none", "tr_sessionClose" >>,
                                        << "tr_sessionClose", "connect" >>,
                                        << "connect", "finished" >> }
     /\ PendingTeardowns' > PendingTeardowns =>
          closePc = "connect" /\ PendingTeardowns = 0 /\ ~TornDown
     /\ last'[1] = "on_session_closed" => ~TornDown /\ TornDown'
     /\ hold' # hold =>
          \/ last'[1] = "on_startup" /\ hold' = hold + 1
          \/ last'[1] = "on_session_closed" /\ hold' = hold - 1 /\ hold' >= 0
  ]_vars

\* quit was triggered a second time, by the quit action, after the thread of
\* the first one has connected on_session_closed
C22_Witness ==
  /\ last = << "actions_handler", "quit" >> /\ is_closing_
  /\ closePc = "finished" /\ closeThread = "bg" /\ PendingTeardowns = 1 /\ hold = 1

(***************************************************************************)
(* Handlers around the teardown (C23).                                     *)
(***************************************************************************)
\* the actions activated while the shell runs and closes: quit and an RPC
\* action, which requests update_model_once
TeardownActions == { "quit", "torrent-start" }

\* the RPC events reported while the shell runs and closes
TeardownRpcEvents ==
  { << "TR_RPC_TORRENT_REMOVING", 1 >>, << "TR_RPC_SESSION_CLOSE", -1 >> }

TeardownInit ==
  \E show_icon \in BOOLEAN :
    InitWith(FALSE, FALSE, { 1 }, show_icon, TRUE, "other", { })

\* user actions, timer ticks, idle callbacks, RPC events and signals interleave
\* with the thread that closes the session
TeardownNext ==
  \/ OnStartup
  \/ \E sel \in SUBSET { 1 } : SelectRows(sel)
  \/ \E a \in TeardownActions : ActionsHandler(a)
  \/ WinClose
  \/ \E e \in TeardownRpcEvents : RpcEvent(e[1], e[2])
  \/ IdleDispatch
  \/ TimerTick
  \/ SessionCloseReturns
  \/ ConnectSessionClosed
  \/ Signal("SIGTERM")

TeardownSpec == TeardownInit /\ [][TeardownNext]_vars

\* C23: once on_session_closed has reset core_, wind_ and the rest, no handler
\* goes through one of the reset pointers: the timer and every idle callback
\* that uses them are gone from the event loop, and the process has not
\* crashed on a null pointer.
C23_NoUseAfterTeardown ==
  TornDown =>
    /\ ~core_ /\ ~wind_
    /\ proc # "crashed"
    /\ ~timer_
    /\ \A i \in 1 .. Len(idle) :
         idle[i].fn \notin { "update_model_once", "on_rpc_changed_idle" }

\* a handler has run after the teardown: a signal was delivered, and quit
\* returned at once
C23_Witness ==
  /\ TornDown /\ last[1] = "signal_handler" /\ proc = "running"
  /\ global_sigcount = 1 /\ ~core_ /\ ~wind_

(***************************************************************************)
(* Requests and drops while the shell closes (C24).                        *)
(***************************************************************************)
\* the actions that execute an RPC request
RequestActions == RpcActions \cup { "start-all-torrents", "pause-all-torrents" }

\* rows are selected, requests are made and files are dropped before and after
\* quit, while the thread closes the session
ClosingNext ==
  \/ OnStartup
  \/ \E sel \in SUBSET TorrentIds : SelectRows(sel)
  \/ \E a \in RequestActions \cup { "quit" } : UserAction(a)
  \/ \E uris \in { << >>, << "a.torrent" >> } : DropGtk3(uris, << >>)
  \/ IdleDispatch
  \/ TimerTick
  \/ SessionCloseReturns
  \/ ConnectSessionClosed

ClosingSpec == ShownInit /\ [][ClosingNext]_vars

\* the requests the last event executed
Requests(cs) == SelectSeq(cs, LAMBDA c : c[1] = "tr_rpc_request_exec_json")

\* C24: a handler that runs when is_closing_ is set executes no RPC request,
\* and it returns: it does not go through the pointer to the closed session.
C24_NoRequestWhileClosing ==
  [][is_closing_ => Requests(calls') = << >> /\ proc' # "crashed"]_vars

\* start-all-torrents was activated after quit had begun, and the request was
\* made through the null session pointer
C24_Witness ==
  /\ is_closing_ /\ last = << "actions_handler", "start-all-torrents" >>
  /\ ~session_open /\ core_ /\ proc = "crashed"

(***************************************************************************)
(* Signals (C25).                                                          *)
(***************************************************************************)
\* the lifecycle, with signals delivered from the moment on_startup has
\* installed the handlers
SignalNext ==
  \/ Next
  \/ \E sig \in { "SIGINT", "SIGTERM" } : SignalInStartup(sig)

SignalSpec == Init /\ [][SignalNext]_vars

\* C25: the first signal counted leaves the process running with the clean
\* shutdown begun; every signal counted after it ends the process by the
\* signal's default action.
C25_FirstSignalQuitsSecondKills ==
  [][global_sigcount' = global_sigcount + 1 =>
       IF global_sigcount = 0
       THEN proc' = "running" /\ is_closing_'
       ELSE proc' = "killed"
  ]_vars

\* the first signal arrived while on_startup ran, and quit went through the
\* null pointer to the main window
C25_Witness ==
  /\ last[1] = "signal_handler" /\ global_sigcount = 1
  /\ ~started /\ ~wind_ /\ proc = "crashed"

(***************************************************************************)
(* The update timer (C26).                                                 *)
(***************************************************************************)
\* the updates of the model the last event made
Updates(cs) == SelectSeq(cs, LAMBDA c : c[1] = "Session::update")

\* the step is a tick of the update timer
Tick == timer_ /\ last' = << "update_model_loop", "-" >>

\* C26: a tick with no signal counted makes one update and leaves the timer
\* connected; a tick with a signal counted makes no update and disconnects the
\* timer; on_app_exit disconnects it, no step but app_setup connects it, and
\* no tick makes an update once is_closing_ is set.
C26_TimerStopsAtSignalOrQuit ==
  [][/\ Tick /\ global_sigcount = 0 =>
          Len(Updates(calls')) = 1 /\ timer_' /\ proc' = "running"
     /\ Tick /\ global_sigcount # 0 => Updates(calls') = << >> /\ ~timer_'
     /\ Tick /\ is_closing_ => Updates(calls') = << >>
     /\ ~is_closing_ /\ is_closing_' /\ started => ~timer_'
     /\ ~timer_ /\ timer_' => ~started /\ started'
  ]_vars

\* a tick came after a signal had been counted: nothing was updated and the
\* timer is disconnected
C26_Witness ==
  /\ last = << "update_model_loop", "-" >> /\ global_sigcount = 1
  /\ ~timer_ /\ Updates(calls) = << >> /\ proc = "running"

(***************************************************************************)
(* Deferred jobs (C27).                                                    *)
(***************************************************************************)
\* the number of idle sources of callback fn that are pending
NPending(fn) == Len(Pending(idle, fn))

\* C27: refresh_actions and update_model_once each have at most one idle source
\* pending, and have one exactly while their tag is connected; the run of the
\* callback leaves its tag disconnected; and a request made with the tag
\* disconnected (a change of the selection, an RPC action on a selection)
\* leaves one source pending.
C27_DeferredJobsCoalesce ==
  /\ [](/\ NPending("refresh_actions") = (IF refresh_actions_tag_ THEN 1 ELSE 0)
        /\ NPending("update_model_once") = (IF update_model_soon_tag_ THEN 1 ELSE 0))
  /\ [][/\ last'[1] = "refresh_actions" => ~refresh_actions_tag_'
        /\ last'[1] = "update_model_once" => ~update_model_soon_tag_'
        /\ last'[1] = "selection_changed" /\ ~is_closing_ =>
             refresh_actions_tag_' /\ NPending("refresh_actions")' = 1
        /\ last'[1] = "actions_handler" /\ last'[2] \in RpcActions /\ selected # { } =>
             update_model_soon_tag_' /\ NPending("update_model_once")' = 1
     ]_vars

\* update_model_once was requested and then the selection changed, and a
\* second RPC action has requested update_model_once while it was pending:
\* there is still one source of each
C27_Witness ==
  /\ Len(idle) = 2
  /\ idle[1].fn = "update_model_once" /\ idle[2].fn = "refresh_actions"
  /\ last[1] = "actions_handler" /\ last[2] \in RpcActions /\ selected # { }
  /\ update_model_soon_tag_ /\ refresh_actions_tag_

ListedIds == { 1, 2, 3 }

\* the session holds any of the three torrents
RefreshInit ==
  \E tors \in SUBSET ListedIds :
    InitWith(FALSE, FALSE, tors, FALSE, TRUE, "other", { })

\* rows are selected, and refresh_actions runs from its idle source, from
\* update_model_once and from the timer, before and after quit
RefreshNext ==
  \/ OnStartup
  \/ \E sel \in SUBSET ListedIds : SelectRows(sel)
  \/ \E a \in { "torrent-start", "quit" } : UserAction(a)
  \/ IdleDispatch
  \/ TimerTick

RefreshSpec == RefreshInit /\ [][RefreshNext]_vars

IsStopped(id) == TorrentActivity(id) = "TR_STATUS_STOPPED"

IsQueued(id) == TorrentActivity(id) \in { "TR_STATUS_DOWNLOAD_WAIT", "TR_STATUS_SEED_WAIT" }

\* refresh_actions was the last to set the sensitivities: it ran in the last
\* event, not closing, and the selection has not changed since
Refreshed ==
  /\ last[1] \in { "refresh_actions", "update_model_once", "update_model_loop" }
  /\ ~is_closing_ /\ proc = "running"

\* action a is sensitive exactly if p holds
SensitiveIff(a, p) == a \in sensitive <=> p

\* C29: after refresh_actions has run while not closing, each action is
\* sensitive exactly if the selection (for the last two, the list) satisfies
\* the action's predicate.
C29_SensitivitiesFollowSelection ==
  Refreshed =>
    /\ SensitiveIff("torrent-stop", \E id \in selected : ~IsStopped(id))
    /\ SensitiveIff("torrent-start", \E id \in selected : IsStopped(id))
    /\ SensitiveIff("torrent-start-now", \E id \in selected : IsStopped(id) \/ IsQueued(id))
    /\ SensitiveIff("torrent-reannounce", \E id \in selected : CanManualUpdate(id))
    /\ \A a \in { "open-torrent-folder", "copy-magnet-link-to-clipboard" } :
         SensitiveIff(a, Cardinality(selected) = 1)
    /\ \A a \in { "torrent-verify", "remove-torrent", "delete-torrent",
                  "relocate-torrent", "queue-move-top", "queue-move-up",
                  "queue-move-down", "queue-move-bottom", "show-torrent-properties" } :
         SensitiveIff(a, selected # { })
    /\ SensitiveIff("pause-all-torrents", \E id \in model : ~IsStopped(id))
    /\ SensitiveIff("start-all-torrents", \E id \in model : IsStopped(id))

\* the downloading torrent alone is selected, in a list that also holds the
\* stopped one: stop is sensitive, start and start-now are not
C29_Witness ==
  /\ Refreshed /\ selected = { 3 } /\ model = { 1, 3 }
  /\ "torrent-stop" \in sensitive
  /\ "torrent-start" \notin sensitive /\ "torrent-start-now" \notin sensitive
  /\ "pause-all-torrents" \in sensitive /\ "start-all-torrents" \in sensitive

(***************************************************************************)
(* The toggle-main-window action and the main window (C30).                *)
(***************************************************************************)
\* the lifecycle, with activate signals
ToggleNext ==
  \/ Next
  \/ OnActivate

ToggleSpec == Init /\ [][ToggleNext]_vars

\* C30: from app_setup on and as long as the main window exists, the action
\* toggle-main-window is toggled on exactly if the main window is visible.
C30_ToggledIsVisible ==
  started /\ wind_ => ("toggle-main-window" \in toggled <=> visible)

\* an application started minimized was toggled once: the window, which was
\* never shown, was hidden, and the action is still toggled off
C30_Witness ==
  /\ started /\ wind_ /\ last = << "actions_handler", "toggle-main-window" >>
  /\ activation_count_ = 0 /\ is_iconified_
  /\ ~visible /\ "toggle-main-window" \notin toggled

(***************************************************************************)
(* What one toggle-main-window does to the window (C31).                   *)
(***************************************************************************)
\* C31: every toggle-main-window action that the running application handles
\* flips the visibility of the main window: a hidden window is visible
\* afterwards and a visible one is hidden, in every state after app_setup,
\* the state directly after a start in the minimized state included.
C31_ToggleFlipsVisibility ==
  [][UserAction("toggle-main-window") /\ proc' = "running" =>
       visible' = ~visible
  ]_vars

\* a toggle-main-window action was handled before any activate signal and has
\* left the main window hidden and is_iconified_ set; after a start in the
\* minimized state that is the outcome of the first toggle, which found the
\* window unshown and is_iconified_ reset by app_setup
C31_Witness ==
  /\ last = << "actions_handler", "toggle-main-window" >>
  /\ proc = "running" /\ ~is_closing_ /\ timer_
  /\ activation_count_ = 0 /\ is_iconified_ /\ ~visible

(***************************************************************************)
(* The close request of the main window (C32).                             *)
(***************************************************************************)
\* what a close request may change when a tray icon exists: nothing but the
\* window's visibility, the action's toggled state and is_iconified_
ShellStateButWindow ==
  << started, start_paused_, is_closing_, activation_count_, timer_,
     update_model_soon_tag_, refresh_actions_tag_, icon_, wind_, core_, msgwin_,
     prefs_, error_list_, duplicates_list_, details_, hold, sensitive,
     closing_panel, consent_dialog, model, selected, prefs, idle, closeThread,
     closePc, teardownThread, session_open, global_sigcount >>

\* C32: a close request of the main window never destroys the window: winclose
\* returns true, so the toolkit's default handler does not run and the window
\* object stays; with a tray icon the request does what toggle-main-window
\* does and nothing else (the window is hidden, no shutdown starts), and
\* without one it starts the shutdown of on_app_exit.
C32_CloseNeverDestroys ==
  [][WinClose /\ proc' = "running" =>
       /\ wind_'
       /\ calls' # << >>
       /\ calls'[Len(calls')] = << "return", "winclose", TRUE >>
       /\ \A i \in 1 .. Len(calls') : calls'[i][1] # "Gtk::Window"
       /\ IF icon_
          THEN /\ ~visible' /\ is_iconified_'
               /\ "toggle-main-window" \notin toggled'
               /\ ShellStateButWindow' = ShellStateButWindow
          ELSE /\ is_closing_' /\ ~timer_'
               /\ visible' = visible
               /\ ~is_closing_ =>
                    /\ closeThread' = "bg" /\ closePc' = "tr_sessionClose"
                    /\ closing_panel' /\ ~session_open'
               /\ is_closing_ =>
                    ShellState' = ShellState /\ closeThread' = closeThread
  ]_vars

\* the main window was closed while a tray icon exists: it is hidden, it is
\* still there, and no shutdown has begun
C32_Witness ==
  /\ last = << "winclose", "-" >> /\ proc = "running"
  /\ icon_ /\ wind_ /\ ~visible /\ is_iconified_
  /\ ~is_closing_ /\ closeThread = "none" /\ timer_
  /\ calls = << << "return", "winclose", TRUE >> >>

(***************************************************************************)
(* The order of storing and signalling for TR_RPC_SESSION_CHANGED (C33).   *)
(***************************************************************************)
\* the keys whose stored value differs from the session's in the state the
\* event is handled in, in the order of the settings dictionary
ChangedBefore == SelectSeq(KeySeq(SessionKeys), LAMBDA k : SettingChanged(State, k))

\* the call the case of a key makes when it reads val as the stored value
CallWith(key, val) ==
  << SwitchCase(key)[2], SwitchCase(key)[3], IF SwitchCase(key)[5] THEN ~val ELSE val >>

\* C33: when TR_RPC_SESSION_CHANGED is handled, the keys that are signalled
\* are the ones found changed in the state before the event, fixed before any
\* handler runs; the stored preferences hold the session's new settings when
\* the handlers run, so the handler of each signalled key with a case label
\* passes the session's new value of the key to the setter, never the value
\* stored before, and the stored values are the new ones afterwards.
C33_StoredBeforeSignalled ==
  [][ (SessionChangedHandled' /\ core_ /\ session_open) =>
        LET labelled == SelectSeq(emitted', LAMBDA k : k \in SwitchKeys)
        IN  /\ emitted' = ChangedBefore
            /\ Len(calls') = Len(labelled)
            /\ \A i \in 1 .. Len(labelled) :
                 /\ calls'[i] = CallWith(labelled[i], settings[labelled[i]])
                 /\ labelled[i] \in DOMAIN prefs =>
                      calls'[i] # CallWith(labelled[i], prefs[labelled[i]])
            /\ \A key \in SessionKeys :
                 key \in DOMAIN prefs' /\ prefs'[key] = settings[key]
            /\ settings' = settings ]_vars

\* a settings change of two keys was handled in one event: both were signalled
\* and both setters were called with the session's values
C33_Witness ==
  /\ SessionChangedHandled
  /\ Len(emitted) = 2 /\ Len(calls) = 2
  /\ \A i \in 1 .. 2 : calls[i] = CallWith(emitted[i], settings[emitted[i]])

====
